---------------------------- MODULE Spec2Model ----------------------------
(***************************************************************************)
(* A model of the MeasurementSet utilities of pyuvdata (ms_utils.py), the  *)
(* calibration-table reader and writer (uvcal/ms_cal.py) and the frequency *)
(* axis helpers (utils/frequency.py).                                      *)
(*                                                                         *)
(* Every component is a set of pure functions over tables and arrays.      *)
(* Each gets its own specification: Init draws the arguments from bounded  *)
(* sets, and one action per function applies it and records its result    *)
(* (or the exception it raises).  The state of one component is one record *)
(* variable; the other components' variables stay at their idle value.     *)
(***************************************************************************)
EXTENDS Integers, Sequences, FiniteSets, TLC

VARIABLES fr, ant, hist, calr, calw, freq, io

vars == <<fr, ant, hist, calr, calw, freq, io>>

\* Python's None for a string-valued or a structured result.
None == "None"

\* The idle value of a component that a specification does not exercise.
Idle == [pc |-> "idle"]

Abs(x) == IF x < 0 THEN -x ELSE x

Range(s) == {s[i] : i \in DOMAIN s}

RECURSIVE SumSeq(_)
SumSeq(s) == IF s = <<>> THEN 0 ELSE s[1] + SumSeq(Tail(s))

\* All sequences over S of length lo..hi.
SeqsOf(S, lo, hi) == UNION {[1..n -> S] : n \in lo..hi}

(***************************************************************************)
(* Coordinate frame translator (ms_utils.py).                              *)
(* A float epoch is modelled by the integer year it equals (2000 for       *)
(* 2000.0); an absent epoch (None) is the empty tuple, a present one a     *)
(* 1-tuple; a (frame, epoch) pair is a 2-tuple and a None entry of the     *)
(* table is the empty tuple.                                               *)
(***************************************************************************)

\* The keys of COORD_PYUVDATA2CASA_DICT in insertion order.
CasaKeys ==
    << "J2000", "JNAT", "JMEAN", "JTRUE", "APP", "B1950", "B1950_VLA",
       "BMEAN", "BTRUE", "GALACTIC", "HADEC", "AZEL", "AZELSW", "AZELNE",
       "AZELGEO", "AZELSWGEO", "AZELNEGEO", "ECLIPTIC", "MECLIPTIC",
       "TECLIPTIC", "SUPERGAL", "ITRF", "TOPO", "ICRS" >>

\* The value COORD_PYUVDATA2CASA_DICT holds for a key: a (frame, epoch)
\* pair, or <<>> for None.
COORD_PYUVDATA2CASA_DICT(key) ==
    CASE key = "J2000"     -> <<"fk5", 2000>>
      [] key = "APP"       -> <<"gcrs", 2000>>
      [] key = "B1950"     -> <<"fk4", 1950>>
      [] key = "B1950_VLA" -> <<"fk4", 1979>>
      [] key = "ICRS"      -> <<"icrs", 2000>>
      [] OTHER             -> <<>>

\* reverse_dict = {ref: key for key, ref in COORD_PYUVDATA2CASA_DICT.items()}
\* looked up at `pair`: the last key, in insertion order, that holds the
\* pair (a later key overwrites an earlier one); None on a KeyError.
ReverseDictLookup(pair) ==
    LET hits == {i \in DOMAIN CasaKeys : COORD_PYUVDATA2CASA_DICT(CasaKeys[i]) = pair}
    IN  IF hits = {} THEN None
        ELSE CasaKeys[CHOOSE i \in hits : \A j \in hits : j <= i]

\* A slip in the reverse lookup: the epoch of the pair is not compared.
ForwardIgnoringEpoch(frame_name, epoch_val, raise_error) ==
    LET hits == {i \in DOMAIN CasaKeys :
                    /\ COORD_PYUVDATA2CASA_DICT(CasaKeys[i]) # <<>>
                    /\ COORD_PYUVDATA2CASA_DICT(CasaKeys[i])[1] = frame_name}
    IN  IF hits # {}
        THEN [ref_name |-> CasaKeys[CHOOSE i \in hits : \A j \in hits : j <= i],
              outcome |-> "return"]
        ELSE IF raise_error THEN [ref_name |-> None, outcome |-> "ValueError"]
        ELSE [ref_name |-> None, outcome |-> "warn"]

\* A slip in the default epoch: an absent epoch is looked up as it is, and
\* so matches no entry.
ParseFrameNoDefaultEpoch(frame_name, epoch_val, raise_error) ==
    LET ref == ReverseDictLookup(<<frame_name>> \o epoch_val)
    IN  IF ref # None THEN [ref_name |-> ref, outcome |-> "return"]
        ELSE IF raise_error THEN [ref_name |-> None, outcome |-> "ValueError"]
        ELSE [ref_name |-> None, outcome |-> "warn"]

\* _parse_pyuvdata_frame_ref(frame_name, epoch_val, raise_error): the
\* record [ref_name, outcome], outcome one of "return", "ValueError",
\* "warn".
parse_pyuvdata_frame_ref(frame_name, epoch_val, raise_error) ==
    LET epoch == IF epoch_val = <<>> THEN <<2000>> ELSE epoch_val
        ref   == ReverseDictLookup(<<frame_name>> \o epoch)
    IN  IF ref # None THEN [ref_name |-> ref, outcome |-> "return"]
        ELSE IF raise_error THEN [ref_name |-> None, outcome |-> "ValueError"]
        ELSE [ref_name |-> None, outcome |-> "warn"]

\* A slip in the lookup: a code the table does not hold is handled like a
\* code whose entry is None (COORD_PYUVDATA2CASA_DICT.get(ref_name)).
ParseCasaFrameWithGet(ref_name, raise_error) ==
    LET frame_tuple == COORD_PYUVDATA2CASA_DICT(ref_name)
    IN  IF frame_tuple = <<>>
        THEN [frame_name |-> None, epoch_val |-> <<>>,
              outcome |-> IF raise_error THEN "NotImplementedError"
                          ELSE "warn_not_implemented"]
        ELSE [frame_name |-> frame_tuple[1], epoch_val |-> <<frame_tuple[2]>>,
              outcome |-> "return"]

\* _parse_casa_frame_ref(ref_name, raise_error): the record [frame_name,
\* epoch_val, outcome], outcome one of "return", "NotImplementedError",
\* "ValueError", "warn_not_implemented", "warn_unknown".
parse_casa_frame_ref(ref_name, raise_error) ==
    IF ref_name \notin Range(CasaKeys)
    THEN [frame_name |-> None, epoch_val |-> <<>>,
          outcome |-> IF raise_error THEN "ValueError" ELSE "warn_unknown"]
    ELSE LET frame_tuple == COORD_PYUVDATA2CASA_DICT(ref_name)
         IN  IF frame_tuple = <<>>
             THEN [frame_name |-> None, epoch_val |-> <<>>,
                   outcome |-> IF raise_error THEN "NotImplementedError"
                               ELSE "warn_not_implemented"]
             ELSE [frame_name |-> frame_tuple[1], epoch_val |-> <<frame_tuple[2]>>,
                   outcome |-> "return"]

\* Frame names and epochs the callers pass: the supported ones and some
\* that the table does not hold.
FrameNames == {"fk5", "gcrs", "fk4", "icrs", "galactic", "fk4noeterms"}

Epochs == {<<>>, <<1950>>, <<1979>>, <<2000>>, <<2015>>}

\* Reference codes read from a table: the CASA codes and an unknown one.
RefNames == Range(CasaKeys) \cup {"BOGUS"}

FrInit ==
    fr \in [pc : {"start"}, frame_name : FrameNames, epoch_val : Epochs,
            raise_error : BOOLEAN, ref_in : RefNames,
            fwd : {None}, inv : {None}]

\* A writer translates the (frame, epoch) pair of a phase centre.
FrForward ==
    /\ fr.pc = "start"
    /\ fr' = [fr EXCEPT !.pc = "fwd",
                        !.fwd = parse_pyuvdata_frame_ref(fr.frame_name, fr.epoch_val,
                                                         fr.raise_error)]
    /\ UNCHANGED <<ant, hist, calr, calw, freq, io>>

\* A reader translates the code the writer stored back to a pair.
FrInverse ==
    /\ fr.pc = "fwd"
    /\ fr.fwd.outcome = "return"
    /\ fr' = [fr EXCEPT !.pc = "inv",
                        !.inv = parse_casa_frame_ref(fr.fwd.ref_name, fr.raise_error)]
    /\ UNCHANGED <<ant, hist, calr, calw, freq, io>>

\* A reader translates a code found in a table written by other software.
FrInverseOfTable ==
    /\ fr.pc = "start"
    /\ fr' = [fr EXCEPT !.pc = "inv_table",
                        !.inv = parse_casa_frame_ref(fr.ref_in, fr.raise_error)]
    /\ UNCHANGED <<ant, hist, calr, calw, freq, io>>

FrNext == FrForward \/ FrInverse \/ FrInverseOfTable

InitFrame ==
    /\ FrInit
    /\ ant = Idle /\ hist = Idle /\ calr = Idle /\ calw = Idle /\ freq = Idle /\ io = Idle

SpecFrame == InitFrame /\ [][FrNext]_vars

\* The (frame, epoch) pairs the supported-frame table maps a code to.
SupportedPairs ==
    {COORD_PYUVDATA2CASA_DICT(k) : k \in Range(CasaKeys)} \ {<<>>}

\* C1: for every (frame, epoch) pair that the supported-frame table maps a
\* CASA code to, translating the pair to a code and the code back returns
\* the same pair.
C1_FrameRoundTrip ==
    (fr.pc = "inv" /\ <<fr.frame_name>> \o fr.epoch_val \in SupportedPairs)
        => /\ fr.inv.outcome = "return"
           /\ <<fr.inv.frame_name>> \o fr.inv.epoch_val
                  = <<fr.frame_name>> \o fr.epoch_val

\* A supported pair with a non-default epoch has been translated both ways.
C1_Witness ==
    /\ fr.pc = "inv"
    /\ fr.frame_name = "fk4" /\ fr.epoch_val = <<1979>>
    /\ fr.fwd.ref_name = "B1950_VLA"
    /\ fr.inv.frame_name = "fk4"

\* The epoch the translator looks up: 2000.0 for an absent one.
EffectiveEpoch(epoch_val) == IF epoch_val = <<>> THEN <<2000>> ELSE epoch_val

\* C19: _parse_pyuvdata_frame_ref treats epoch None as epoch 2000.0 (the
\* result for (frame, None) is the result for (frame, 2000.0)); for every
\* (frame, epoch) pair with no exact entry in the supported set it raises in
\* raise mode and warns and returns None otherwise; a code it returns is
\* the code of an entry that holds exactly that pair.
C19_ForwardExactOrRefused ==
    fr.pc = "fwd" =>
        LET pair == <<fr.frame_name>> \o EffectiveEpoch(fr.epoch_val)
        IN  /\ fr.epoch_val = <<>> =>
                  fr.fwd = parse_pyuvdata_frame_ref(fr.frame_name, <<2000>>, fr.raise_error)
            /\ pair \notin SupportedPairs =>
                  /\ fr.fwd.ref_name = None
                  /\ fr.fwd.outcome = IF fr.raise_error THEN "ValueError" ELSE "warn"
            /\ pair \in SupportedPairs => fr.fwd.outcome = "return"
            /\ fr.fwd.outcome = "return" =>
                  /\ fr.fwd.ref_name \in Range(CasaKeys)
                  /\ COORD_PYUVDATA2CASA_DICT(fr.fwd.ref_name) = pair

\* A frame with no epoch has been translated to the code of its 2000.0
\* entry.
C19_Witness ==
    /\ fr.pc = "fwd"
    /\ fr.frame_name = "icrs" /\ fr.epoch_val = <<>>
    /\ fr.fwd = [ref_name |-> "ICRS", outcome |-> "return"]

\* A supported frame with an epoch of no entry has been refused with a
\* warning.
C19_WitnessRefused ==
    /\ fr.pc = "fwd"
    /\ fr.frame_name = "fk4" /\ fr.epoch_val = <<>>
    /\ ~fr.raise_error
    /\ fr.fwd = [ref_name |-> None, outcome |-> "warn"]

\* The code the reader was given, after either kind of call.
CodeRead == IF fr.pc = "inv" THEN fr.fwd.ref_name ELSE fr.ref_in

\* C20: _parse_casa_frame_ref has exactly three outcomes: a code with a
\* frame and epoch entry returns that pair; a code CASA knows whose entry
\* is None signals "not implemented" (NotImplementedError in raise mode, a
\* warning and (None, None) otherwise); a code the table does not hold
\* signals "unknown frame" (ValueError in raise mode, a warning and
\* (None, None) otherwise).
C20_InverseThreeOutcomes ==
    fr.pc \in {"inv", "inv_table"} =>
        /\ (CodeRead \in Range(CasaKeys) /\ COORD_PYUVDATA2CASA_DICT(CodeRead) # <<>>) =>
              /\ fr.inv.outcome = "return"
              /\ <<fr.inv.frame_name>> \o fr.inv.epoch_val = COORD_PYUVDATA2CASA_DICT(CodeRead)
        /\ (CodeRead \in Range(CasaKeys) /\ COORD_PYUVDATA2CASA_DICT(CodeRead) = <<>>) =>
              /\ fr.inv.outcome = IF fr.raise_error THEN "NotImplementedError"
                                  ELSE "warn_not_implemented"
              /\ fr.inv.frame_name = None /\ fr.inv.epoch_val = <<>>
        /\ CodeRead \notin Range(CasaKeys) =>
              /\ fr.inv.outcome = IF fr.raise_error THEN "ValueError" ELSE "warn_unknown"
              /\ fr.inv.frame_name = None /\ fr.inv.epoch_val = <<>>

\* A code the table does not hold has been read in no-raise mode.
C20_Witness ==
    /\ fr.pc = "inv_table"
    /\ fr.ref_in = "BOGUS" /\ ~fr.raise_error
    /\ fr.inv = [frame_name |-> None, epoch_val |-> <<>>, outcome |-> "warn_unknown"]

\* A code CASA knows but pyuvdata does not translate has been read in raise
\* mode.
C20_WitnessNotImplemented ==
    /\ fr.pc = "inv_table"
    /\ fr.ref_in = "GALACTIC" /\ fr.raise_error
    /\ fr.inv.outcome = "NotImplementedError"


(***************************************************************************)
(* ANTENNA table writer and reader (ms_utils.py).                          *)
(* A table is a record of its columns, each a sequence with one entry per  *)
(* row; row r of the table (counted from 0) is entry r + 1.  A position is *)
(* a 3-vector of integers standing for the float coordinates.              *)
(***************************************************************************)

\* The largest antenna number and the largest number of antennas drawn.
MaxAntNum == 3

MaxAnts == 2

VecAdd(a, b) == [i \in 1..3 |-> a[i] + b[i]]

ZeroVec == <<0, 0, 0>>

\* str.upper() and str.lower() on the frame tokens in use.
Upper(s) ==
    CASE s \in {"itrs", "ITRS"} -> "ITRS"
      [] s \in {"itrf", "ITRF"} -> "ITRF"
      [] s \in {"mcmf", "MCMF"} -> "MCMF"
      [] OTHER -> s

Lower(s) ==
    CASE s \in {"itrs", "ITRS"} -> "itrs"
      [] s \in {"itrf", "ITRF"} -> "itrf"
      [] s \in {"mcmf", "MCMF"} -> "mcmf"
      [] OTHER -> s

\* The input index ai (from 1) of the last antenna with number num, the
\* one whose values the loops of write_ms_antenna leave in row num; 0 when
\* no antenna has the number.
LastWithNumber(antenna_numbers, num) ==
    LET hits == {ai \in DOMAIN antenna_numbers : antenna_numbers[ai] = num}
    IN  IF hits = {} THEN 0 ELSE CHOOSE ai \in hits : \A aj \in hits : aj <= ai

SeqMax(s) == CHOOSE m \in Range(s) : \A x \in Range(s) : x <= m

\* A slip in the padding: rows are filled in input order, not by number.
WriteAntennaByInputOrder(antenna_numbers, antenna_names, antenna_positions, antenna_diameters, telescope_location, telescope_frame) ==
    LET nants_table == SeqMax(antenna_numbers) + 1
        n == Len(antenna_numbers)
        upper == Upper(telescope_frame)
    IN  [ nrows |-> nants_table,
          NAME |-> [r \in 1..nants_table |->
                       IF r <= n THEN antenna_names[r] ELSE ""],
          STATION |-> [r \in 1..nants_table |->
                       IF r <= n THEN antenna_names[r] ELSE ""],
          POSITION |-> [r \in 1..nants_table |->
                       IF r <= n THEN VecAdd(antenna_positions[r], telescope_location)
                       ELSE ZeroVec],
          DISH_DIAMETER |-> [r \in 1..nants_table |->
                       IF antenna_diameters # <<>> /\ r <= n
                       THEN antenna_diameters[r] ELSE 0],
          Ref |-> IF upper = "ITRS" THEN "ITRF" ELSE upper ]

\* write_ms_antenna: the ANTENNA table it writes.  antenna_diameters is <<>>
\* for None; the DISH_DIAMETER column then keeps the value of a new row, 0.
write_ms_antenna(antenna_numbers, antenna_names, antenna_positions, antenna_diameters, telescope_location, telescope_frame) ==
    LET nants_table == SeqMax(antenna_numbers) + 1
        src(r) == LastWithNumber(antenna_numbers, r - 1)
        ant_names_table == [r \in 1..nants_table |->
                               IF src(r) = 0 THEN "" ELSE antenna_names[src(r)]]
        ant_pos_absolute == [ai \in DOMAIN antenna_positions |->
                               VecAdd(antenna_positions[ai], telescope_location)]
        ant_pos_table == [r \in 1..nants_table |->
                               IF src(r) = 0 THEN ZeroVec ELSE ant_pos_absolute[src(r)]]
        ant_diam_table == [r \in 1..nants_table |->
                               IF antenna_diameters = <<>> THEN 0
                               ELSE IF Cardinality(Range(antenna_diameters)) = 1
                                    THEN antenna_diameters[1]
                               ELSE IF src(r) = 0 THEN 0
                               ELSE antenna_diameters[src(r)]]
        upper == Upper(telescope_frame)
    IN  [ nrows |-> nants_table,
          NAME |-> ant_names_table,
          STATION |-> ant_names_table,
          POSITION |-> ant_pos_table,
          DISH_DIAMETER |-> ant_diam_table,
          Ref |-> IF upper = "ITRS" THEN "ITRF" ELSE upper ]

\* The entries of column col at the rows of the sorted row list rows.
Masked(col, rows) == [k \in DOMAIN rows |-> col[rows[k]]]

\* The elements of a set of integers as an ascending sequence.
RECURSIVE SortedSeq(_)
SortedSeq(S) ==
    IF S = {} THEN <<>>
    ELSE LET m == CHOOSE x \in S : \A y \in S : x <= y
         IN  <<m>> \o SortedSeq(S \ {m})

\* read_ms_ant: the dictionary it returns, or the exception it raises.
read_ms_ant(tb_ant, check_frame) ==
    LET lowered == Lower(tb_ant.Ref)
        telescope_frame == IF check_frame /\ lowered = "itrf" THEN "itrs" ELSE lowered
        good_rows == SortedSeq({r \in 1..tb_ant.nrows :
                                   \E i \in 1..3 : tb_ant.POSITION[r][i] # 0})
    IN  IF check_frame /\ lowered \notin {"itrs", "mcmf", "itrf"}
        THEN [outcome |-> "ValueError"]
        ELSE [ outcome |-> "return",
               antenna_positions |-> Masked(tb_ant.POSITION, good_rows),
               antenna_numbers |-> [k \in DOMAIN good_rows |-> good_rows[k] - 1],
               telescope_frame |-> telescope_frame,
               antenna_names |-> Masked(tb_ant.NAME, good_rows),
               station_names |-> Masked(tb_ant.STATION, good_rows),
               antenna_diameters |-> Masked(tb_ant.DISH_DIAMETER, good_rows) ]

\* Antenna numbers: distinct numbers in any order.
AntNumberSeqs ==
    {s \in SeqsOf(0..MaxAntNum, 1, MaxAnts) :
        \A i, j \in DOMAIN s : i # j => s[i] # s[j]}

\* Positions relative to the telescope location, and telescope locations.
RelPositions == {<<-1, 0, 0>>, <<0, 0, 0>>, <<0, 2, 0>>}

TelLocations == {<<1, 0, 0>>, <<0, 0, 3>>}

AntNames == {"a", "b"}

\* Per-antenna diameters: None, all equal, or different for each antenna.
DiameterChoices(n) == {<<>>, [i \in 1..n |-> 7], [i \in 1..n |-> 7 + i]}

AntInit ==
    \E nums \in AntNumberSeqs :
    \E names \in [DOMAIN nums -> AntNames] :
    \E pos \in [DOMAIN nums -> RelPositions] :
    \E diam \in DiameterChoices(Len(nums)) :
    \E loc \in TelLocations :
    \E frame \in {"itrs", "mcmf"} :
    \E check \in BOOLEAN :
        ant = [ pc |-> "start",
                antenna_numbers |-> nums, antenna_names |-> names,
                antenna_positions |-> pos, antenna_diameters |-> diam,
                telescope_location |-> loc, telescope_frame |-> frame,
                check_frame |-> check, table |-> None, read |-> None ]

AntWrite ==
    /\ ant.pc = "start"
    /\ ant' = [ant EXCEPT !.pc = "written",
                 !.table = write_ms_antenna(ant.antenna_numbers, ant.antenna_names,
                              ant.antenna_positions, ant.antenna_diameters,
                              ant.telescope_location, ant.telescope_frame)]
    /\ UNCHANGED <<fr, hist, calr, calw, freq, io>>

AntRead ==
    /\ ant.pc = "written"
    /\ ant' = [ant EXCEPT !.pc = "read",
                          !.read = read_ms_ant(ant.table, ant.check_frame)]
    /\ UNCHANGED <<fr, hist, calr, calw, freq, io>>

AntNext == AntWrite \/ AntRead

InitAnt ==
    /\ AntInit
    /\ fr = Idle /\ hist = Idle /\ calr = Idle /\ calw = Idle /\ freq = Idle /\ io = Idle

SpecAnt == InitAnt /\ [][AntNext]_vars

\* The antenna numbers are sparse: some number below the largest is unused.
AntSparse ==
    \E num \in 0..SeqMax(ant.antenna_numbers) : num \notin Range(ant.antenna_numbers)

\* The absolute position write_ms_antenna stores for input antenna ai.
AntAbsolute(ai) == VecAdd(ant.antenna_positions[ai], ant.telescope_location)

\* What was read back is exactly what was written: the same numbers, each
\* with its name, diameter and absolute position.
AntReadBackExact ==
    /\ ant.read.outcome = "return"
    /\ Range(ant.read.antenna_numbers) = Range(ant.antenna_numbers)
    /\ Len(ant.read.antenna_numbers) = Len(ant.antenna_numbers)
    /\ \A k \in DOMAIN ant.read.antenna_numbers :
         \A ai \in DOMAIN ant.antenna_numbers :
            ant.antenna_numbers[ai] = ant.read.antenna_numbers[k] =>
               /\ ant.read.antenna_names[k] = ant.antenna_names[ai]
               /\ ant.read.antenna_positions[k] = AntAbsolute(ai)
               /\ ant.antenna_diameters # <<>> =>
                     ant.read.antenna_diameters[k] = ant.antenna_diameters[ai]

\* The table has max antenna number + 1 rows.
AntTableHeight == ant.table.nrows = SeqMax(ant.antenna_numbers) + 1

\* C2 as stated: writing any sparse antenna set and reading it back
\* returns exactly the original antennas, from a table of max antenna
\* number + 1 rows.
C2_AntennaRoundTrip_AsStated ==
    (ant.pc = "read" /\ AntSparse) => (AntTableHeight /\ AntReadBackExact)

\* C2 (amended): writing a sparse antenna set in which no antenna's
\* absolute position (relative position + telescope location) is the zero
\* vector and reading it back returns exactly the original antenna numbers,
\* each with its original name, diameter and absolute position; the table
\* has max antenna number + 1 rows, and every row that is read back is the
\* row of an antenna of the set (padding rows are dropped).  An antenna
\* whose absolute position is the zero vector is dropped like a padding row.
C2_AntennaRoundTrip ==
    (ant.pc = "read" /\ AntSparse) =>
        /\ AntTableHeight
        /\ ant.read.outcome = "return"
        /\ Range(ant.read.antenna_numbers) =
              {ant.antenna_numbers[ai] : ai \in
                  {aj \in DOMAIN ant.antenna_numbers : AntAbsolute(aj) # ZeroVec}}
        /\ (\A ai \in DOMAIN ant.antenna_numbers : AntAbsolute(ai) # ZeroVec)
              => AntReadBackExact

\* A sparse set {0, 2} without a zero absolute position was written to a
\* 3-row table and read back as two antennas.
C2_Witness ==
    /\ ant.pc = "read"
    /\ AntSparse
    /\ Range(ant.antenna_numbers) = {0, 2}
    /\ \A ai \in DOMAIN ant.antenna_numbers : AntAbsolute(ai) # ZeroVec
    /\ ant.table.nrows = 3
    /\ ant.read.outcome = "return"
    /\ Len(ant.read.antenna_numbers) = 2

\* C23: read_ms_ant returns the position frame keyword as a lowercase
\* token with "itrf" remapped to "itrs", with check_frame true or false;
\* a frame of "itrs" or "mcmf" that write_ms_antenna wrote (uppercase, ITRS
\* as ITRF) is read back unchanged.
C23_FrameTokenRoundTrip ==
    (ant.pc = "read" /\ ant.read.outcome = "return") =>
        /\ ant.table.Ref = (IF ant.telescope_frame = "itrs" THEN "ITRF" ELSE "MCMF")
        /\ ant.read.telescope_frame # "itrf"
        /\ ant.read.telescope_frame = ant.telescope_frame


(***************************************************************************)
(* HISTORY table reader and writer (ms_utils.py).                          *)
(* A string is a sequence of tokens: a word ("casa", "pyuvdata", the       *)
(* sentinel texts), the separator ";" or the line break NL.  A substring   *)
(* test is a test for a contiguous run of tokens.  A row of the HISTORY    *)
(* table is a record of its nine columns; the string columns hold token    *)
(* sequences, the numeric ones integers.                                   *)
(***************************************************************************)

\* The largest number of rows of a HISTORY table drawn.
MaxHistRows == 3

NL == "\n"

\* Time.now().mjd * 3600.0 * 24.0, the timestamp of a row the writer makes.
TimeNow == 9

\* Whether the token sequence pat occurs in s as a contiguous run.
Contains(s, pat) ==
    \E i \in 0..(Len(s) - Len(pat)) : SubSeq(s, i + 1, i + Len(pat)) = pat

\* str.split(sep): the segments of s between the separators.
RECURSIVE SplitOn(_, _)
SplitOn(s, sep) ==
    IF sep \notin Range(s) THEN <<s>>
    ELSE LET i == CHOOSE k \in DOMAIN s : s[k] = sep /\ \A j \in 1..(k - 1) : s[j] # sep
         IN  <<SubSeq(s, 1, i - 1)>> \o SplitOn(SubSeq(s, i + 1, Len(s)), sep)

\* str.splitlines(): the lines of s; a final line break ends the last line
\* and starts no empty one.
SplitLines(s) ==
    IF s = <<>> THEN <<>>
    ELSE LET parts == SplitOn(s, NL)
         IN  IF parts[Len(parts)] = <<>> THEN SubSeq(parts, 1, Len(parts) - 1)
             ELSE parts

\* sep.join(parts)
RECURSIVE Join(_, _)
Join(parts, sep) ==
    IF parts = <<>> THEN <<>>
    ELSE IF Len(parts) = 1 THEN parts[1]
    ELSE parts[1] \o <<sep>> \o Join(Tail(parts), sep)

\* str() of an integer cell, and int() of a field (<<>> on a ValueError,
\* else the 1-tuple of the value).
IntLiterals == -1..9

StrInt(n) == <<ToString(n)>>

ParseInt(field) ==
    IF \E n \in IntLiterals : field = StrInt(n)
    THEN <<CHOOSE n \in IntLiterals : field = StrInt(n)>>
    ELSE <<>>

\* str() of a float cell holding a whole number, and np.float64() of a field.
StrFloat(t) == <<ToString(t), ".0">>

ParseFloat(field) ==
    IF \E t \in IntLiterals : field = StrFloat(t)
    THEN <<CHOOSE t \in IntLiterals : field = StrFloat(t)>>
    ELSE <<>>

\* The sentinel texts.
BeginText == "Begin measurement set history"

EndText == "End measurement set history"

HeaderTail ==
    << "APPLICATION", ";", "MESSAGE", ";", "OBJECT_ID", ";", "OBSERVATION_ID", ";",
       "ORIGIN", ";", "PRIORITY", ";", "TIME", NL >>

\* The text write_ms_history looks for.
HeaderProbe == << "APP_PARAMS", ";", "CLI_COMMAND", ";", "APPLICATION", ";", "MESSAGE" >>

\* Whether a row was put in by pyuvdata: "pyuvdata" in its APPLICATION.
IsPyuvdataRow(row) == "pyuvdata" \in Range(row.APPLICATION)

\* The ";"-joined line of one row, of the columns the table has.
RowLine(tb_hist, row) ==
    Join( (IF tb_hist.has_app_params THEN <<row.APP_PARAMS>> ELSE <<>>)
          \o (IF tb_hist.has_cli_command THEN <<row.CLI_COMMAND>> ELSE <<>>)
          \o << row.APPLICATION, row.MESSAGE, StrInt(row.OBJECT_ID),
                StrInt(row.OBSERVATION_ID), row.ORIGIN, row.PRIORITY,
                StrFloat(row.TIME) >>, ";") \o <<NL>>

\* The lines of the rows k.. of the table that pyuvdata did not put in.
RECURSIVE MsRowLines(_, _)
MsRowLines(tb_hist, k) ==
    IF k > Len(tb_hist.rows) THEN <<>>
    ELSE (IF IsPyuvdataRow(tb_hist.rows[k]) THEN <<>>
          ELSE RowLine(tb_hist, tb_hist.rows[k]))
         \o MsRowLines(tb_hist, k + 1)

\* The loop over pyuvdata_line_idx from entry k on: a row before the first
\* MS row is put in front of the string built so far, any other after it.
RECURSIVE PlacePyuvdataLines(_, _, _, _)
PlacePyuvdataLines(tb_hist, k, min_ms, history_str) ==
    IF k > Len(tb_hist.rows) THEN history_str
    ELSE IF ~IsPyuvdataRow(tb_hist.rows[k])
         THEN PlacePyuvdataLines(tb_hist, k + 1, min_ms, history_str)
    ELSE IF k - 1 < min_ms
         THEN PlacePyuvdataLines(tb_hist, k + 1, min_ms,
                                 tb_hist.rows[k].MESSAGE \o <<NL>> \o history_str)
    ELSE PlacePyuvdataLines(tb_hist, k + 1, min_ms,
                            history_str \o tb_hist.rows[k].MESSAGE \o <<NL>>)

\* uvutils._check_history_version: whether the version text is in the
\* history.
check_history_version(history_str, pyuvdata_version_str) ==
    Contains(history_str, pyuvdata_version_str)

\* read_ms_hist: the history string of a HISTORY table.
read_ms_hist(tb_hist, pyuvdata_version_str) ==
    LET nrows == Len(tb_hist.rows)
        header == <<BeginText, NL>>
                  \o (IF tb_hist.has_app_params THEN <<"APP_PARAMS", ";">> ELSE <<>>)
                  \o (IF tb_hist.has_cli_command THEN <<"CLI_COMMAND", ";">> ELSE <<>>)
                  \o HeaderTail
        block == header \o MsRowLines(tb_hist, 1) \o <<EndText, ".", NL>>
        ms_line_idx == {k - 1 : k \in {j \in 1..nrows : ~IsPyuvdataRow(tb_hist.rows[j])}}
        min_ms == IF ms_line_idx = {} THEN -1
                  ELSE CHOOSE m \in ms_line_idx : \A x \in ms_line_idx : m <= x
        history_str == IF nrows > 0
                       THEN PlacePyuvdataLines(tb_hist, 1, min_ms, block)
                       ELSE <<>>
    IN  IF check_history_version(history_str, pyuvdata_version_str)
        THEN history_str
        ELSE history_str \o pyuvdata_version_str

\* A row the writer attributes to pyuvdata, holding one line of history.
PyuvdataRow(line) ==
    [ APP_PARAMS |-> <<>>, CLI_COMMAND |-> <<>>, APPLICATION |-> <<"pyuvdata">>,
      MESSAGE |-> line, OBJECT_ID |-> 0, OBSERVATION_ID |-> -1,
      ORIGIN |-> <<"pyuvdata">>, PRIORITY |-> <<"INFO">>, TIME |-> TimeNow ]

\* The loop of write_ms_history over the lines k.. of the history, on the
\* state st of its local variables: ms_history, whether ms_header_line_no
\* and ms_end_line_no are set, the pre- and post-block lines, the rows
\* parsed so far, whether it warned, and whether int() or np.float64()
\* raised.
RECURSIVE ParseHistoryLines(_, _, _)
ParseHistoryLines(lines, k, st) ==
    IF k > Len(lines) \/ st.error THEN st
    ELSE LET line == lines[k]
             line_parts == SplitOn(line, ";")
         IN
         IF ~st.ms_history THEN ParseHistoryLines(lines, k + 1, st)
         ELSE IF Contains(line, HeaderProbe)
              THEN ParseHistoryLines(lines, k + 1, [st EXCEPT !.header = TRUE])
         ELSE IF Contains(line, <<EndText>>)
              THEN ParseHistoryLines(lines, k + 1, [st EXCEPT !.end = TRUE])
         ELSE IF st.header /\ ~st.end
              THEN IF Len(line_parts) # 9
                   THEN ParseHistoryLines(lines, k + 1,
                            [st EXCEPT !.warned = TRUE, !.pre = <<>>, !.post = <<>>,
                                       !.ms_history = FALSE])
                   ELSE IF ParseInt(line_parts[5]) = <<>> \/ ParseInt(line_parts[6]) = <<>>
                           \/ ParseFloat(line_parts[9]) = <<>>
                        THEN [st EXCEPT !.error = TRUE]
                   ELSE ParseHistoryLines(lines, k + 1,
                            [st EXCEPT !.rows = @ \o
                               << [ APP_PARAMS |-> line_parts[1],
                                    CLI_COMMAND |-> line_parts[2],
                                    APPLICATION |-> line_parts[3],
                                    MESSAGE |-> line_parts[4],
                                    OBJECT_ID |-> ParseInt(line_parts[5])[1],
                                    OBSERVATION_ID |-> ParseInt(line_parts[6])[1],
                                    ORIGIN |-> line_parts[7],
                                    PRIORITY |-> line_parts[8],
                                    TIME |-> ParseFloat(line_parts[9])[1] ] >>])
         ELSE IF ~st.header
              THEN ParseHistoryLines(lines, k + 1,
                       IF Contains(line, <<BeginText>>) THEN st
                       ELSE [st EXCEPT !.pre = @ \o <<line>>])
         ELSE ParseHistoryLines(lines, k + 1, [st EXCEPT !.post = @ \o <<line>>])

\* The rows the writer makes of a list of lines.
PyuvdataRows(lines) == [k \in DOMAIN lines |-> PyuvdataRow(lines[k])]

\* write_ms_history: the record [outcome, warned, table] of the HISTORY
\* table it writes, or the exception it raises.
write_ms_history(history) ==
    LET lines == SplitLines(history)
        ms_history == Contains(history, HeaderProbe)
        st == ParseHistoryLines(lines, 1,
                  [ ms_history |-> ms_history, header |-> FALSE, end |-> FALSE,
                    pre |-> <<>>, post |-> <<>>, rows |-> <<>>,
                    warned |-> FALSE, error |-> FALSE ])
        parsed == IF ms_history
                  THEN PyuvdataRows(st.pre) \o st.rows \o PyuvdataRows(st.post)
                  ELSE <<>>
        rows == IF st.ms_history THEN parsed ELSE parsed \o PyuvdataRows(lines)
    IN  IF st.error THEN [outcome |-> "ValueError", warned |-> st.warned, table |-> None]
        ELSE [ outcome |-> "return", warned |-> st.warned,
               table |-> [ has_app_params |-> TRUE, has_cli_command |-> TRUE,
                           rows |-> rows ] ]


\* The version text the caller passes (one line, no line break).
VersionStr == <<"pyuvdata version">>

\* Rows another package wrote: the message may hold a ";".
ForeignRows ==
    [ APP_PARAMS : {<<"p">>}, CLI_COMMAND : {<<>>}, APPLICATION : {<<"casa">>},
      MESSAGE : {<<"m">>, <<"m", ";", "n">>}, OBJECT_ID : {0, 1},
      OBSERVATION_ID : {2}, ORIGIN : {<<"im">>}, PRIORITY : {<<"WARN">>},
      TIME : {5} ]

\* Rows an earlier write_ms_history made.
OwnRows == {PyuvdataRow(msg) : msg \in {<<"x">>, <<"y">>, VersionStr}}

HistInit ==
    \E rows \in SeqsOf(ForeignRows \cup OwnRows, 1, MaxHistRows) :
    \E app, cli \in BOOLEAN :
        hist = [ pc |-> "start",
                 table |-> [rows |-> rows, has_app_params |-> app,
                            has_cli_command |-> cli],
                 history |-> None, written |-> None, history2 |-> None ]

\* read_ms_hist on the table.
HistRead ==
    /\ hist.pc = "start"
    /\ hist' = [hist EXCEPT !.pc = "read",
                            !.history = read_ms_hist(hist.table, VersionStr)]
    /\ UNCHANGED <<fr, ant, calr, calw, freq, io>>

\* write_ms_history of the unmodified history string.
HistWrite ==
    /\ hist.pc = "read"
    /\ hist' = [hist EXCEPT !.pc = "written",
                            !.written = write_ms_history(hist.history)]
    /\ UNCHANGED <<fr, ant, calr, calw, freq, io>>

\* read_ms_hist on the table that was written.
HistReread ==
    /\ hist.pc = "written"
    /\ hist.written.outcome = "return"
    /\ hist' = [hist EXCEPT !.pc = "reread",
                            !.history2 = read_ms_hist(hist.written.table, VersionStr)]
    /\ UNCHANGED <<fr, ant, calr, calw, freq, io>>

HistNext == HistRead \/ HistWrite \/ HistReread

InitHist ==
    /\ HistInit
    /\ fr = Idle /\ ant = Idle /\ calr = Idle /\ calw = Idle /\ freq = Idle /\ io = Idle

SpecHist == InitHist /\ [][HistNext]_vars

\* The rows of s that pyuvdata put in (pyuvdata = TRUE), or the others.
RECURSIVE SelectRows(_, _)
SelectRows(s, pyuvdata) ==
    IF s = <<>> THEN <<>>
    ELSE (IF IsPyuvdataRow(s[1]) = pyuvdata THEN <<s[1]>> ELSE <<>>)
         \o SelectRows(Tail(s), pyuvdata)

\* The lines of a history string from the header line to the footer line.
StructuredBlock(history) ==
    LET lines == SplitLines(history)
        hs == {k \in DOMAIN lines : Contains(lines[k], HeaderProbe)}
        es == {k \in DOMAIN lines : Contains(lines[k], <<EndText>>)}
    IN  IF hs = {} \/ es = {} THEN <<>>
        ELSE SubSeq(lines, CHOOSE k \in hs : \A j \in hs : k <= j,
                           CHOOSE k \in es : \A j \in es : k <= j)

\* The table has all nine columns and only foreign rows.
HistAllForeign ==
    /\ hist.table.has_app_params /\ hist.table.has_cli_command
    /\ \A k \in DOMAIN hist.table.rows : ~IsPyuvdataRow(hist.table.rows[k])

\* C3: for a HISTORY table of N >= 1 foreign rows, the blob read_ms_hist
\* produces, passed to write_ms_history, gives a table whose foreign rows
\* are the same N rows with identical values in all nine columns, in the
\* same order; reading that table again gives the same structured block.
C3_HistoryRoundTrip ==
    /\ (hist.pc \in {"written", "reread"} /\ HistAllForeign) =>
          /\ hist.written.outcome = "return"
          /\ SelectRows(hist.written.table.rows, FALSE) = hist.table.rows
    /\ (hist.pc = "written" /\ HistAllForeign) => hist.written.outcome = "return"
    /\ (hist.pc = "reread" /\ HistAllForeign) =>
          StructuredBlock(hist.history2) = StructuredBlock(hist.history)

\* The positions of the first and the last foreign row of a row list.
FirstForeign(rows) ==
    CHOOSE k \in DOMAIN rows : ~IsPyuvdataRow(rows[k])
                               /\ \A j \in 1..(k - 1) : IsPyuvdataRow(rows[j])

LastForeign(rows) ==
    CHOOSE k \in DOMAIN rows : ~IsPyuvdataRow(rows[k])
                               /\ \A j \in (k + 1)..Len(rows) : IsPyuvdataRow(rows[j])

\* The messages of the pyuvdata rows before, and after, the foreign block.
MessagesOf(rows) == [k \in DOMAIN rows |-> rows[k].MESSAGE]

PreMessages(rows) == MessagesOf(SubSeq(rows, 1, FirstForeign(rows) - 1))

PostMessages(rows) == MessagesOf(SubSeq(rows, LastForeign(rows) + 1, Len(rows)))

\* The table has all nine columns, its foreign rows form one block of
\* lines that parse back (no ";" inside a field), and its pyuvdata rows
\* lie before and after that block.
HistOwnAroundForeign ==
    /\ hist.table.has_app_params /\ hist.table.has_cli_command
    /\ \E k \in DOMAIN hist.table.rows : ~IsPyuvdataRow(hist.table.rows[k])
    /\ \A k \in DOMAIN hist.table.rows :
          /\ ~IsPyuvdataRow(hist.table.rows[k]) => ";" \notin Range(hist.table.rows[k].MESSAGE)
          /\ (FirstForeign(hist.table.rows) <= k /\ k <= LastForeign(hist.table.rows))
                => ~IsPyuvdataRow(hist.table.rows[k])

\* Whether s is an initial part of t.
IsPrefix(s, t) == Len(s) <= Len(t) /\ SubSeq(t, 1, Len(s)) = s

\* C4: self-originated (pyuvdata) history lines keep their recorded
\* position across decode and re-encode: the pyuvdata messages before the
\* foreign block reappear before it, those after it after it (where the
\* version text may follow them), in the same relative order.
C4_OwnLinesKeepPosition ==
    (hist.pc = "written" /\ HistOwnAroundForeign) =>
        /\ hist.written.outcome = "return"
        /\ \E k \in DOMAIN hist.written.table.rows :
              ~IsPyuvdataRow(hist.written.table.rows[k])
        /\ PreMessages(hist.written.table.rows) = PreMessages(hist.table.rows)
        /\ IsPrefix(PostMessages(hist.table.rows),
                    PostMessages(hist.written.table.rows))


\* write_ms_history warned that it failed to parse the structured block.
HistFellBack ==
    /\ hist.pc = "written"
    /\ hist.written.outcome = "return"
    /\ hist.written.warned

\* C17: when write_ms_history finds a row of the structured block whose
\* field count is not 9, it warns and the table written has exactly one row
\* per line of the history string, every row attributed to pyuvdata
\* (APPLICATION and ORIGIN "pyuvdata"), and no row parsed from the block,
\* wherever in the block the malformed row occurs.
C17_FallbackIsOneRowPerLine ==
    HistFellBack =>
        /\ Len(hist.written.table.rows) = Len(SplitLines(hist.history))
        /\ \A k \in DOMAIN hist.written.table.rows :
              /\ hist.written.table.rows[k].APPLICATION = <<"pyuvdata">>
              /\ hist.written.table.rows[k].ORIGIN = <<"pyuvdata">>
        /\ hist.written.table.rows = PyuvdataRows(SplitLines(hist.history))

\* The header line of a table that has all nine columns.
NineNameHeader == <<"APP_PARAMS", ";", "CLI_COMMAND", ";">> \o SubSeq(HeaderTail, 1, Len(HeaderTail) - 1)

\* The positions of the sentinel lines of a history string.
BeginLineNo(lines) == CHOOSE k \in DOMAIN lines : Contains(lines[k], <<BeginText>>)

EndLineNo(lines) == CHOOSE k \in DOMAIN lines : Contains(lines[k], <<EndText>>)

\* C18: for every HISTORY table with at least one row, tables that lack
\* the APP_PARAMS or the CLI_COMMAND column included, the structured block
\* read_ms_hist emits has the 9-name header and every row line has exactly
\* 9 ";"-delimited fields, so that write_ms_history recognises the block.
C18_BlockHasNineFields ==
    (hist.pc = "read" /\ Len(hist.table.rows) >= 1) =>
        LET lines == SplitLines(hist.history)
        IN  /\ lines[BeginLineNo(lines) + 1] = NineNameHeader
            /\ \A k \in (BeginLineNo(lines) + 2)..(EndLineNo(lines) - 1) :
                  Len(SplitOn(lines[k], ";")) = 9
            /\ Contains(hist.history, HeaderProbe)

(***************************************************************************)
(* Calibration table reader: the time index (uvcal/ms_cal.py).             *)
(* Timestamps are integers standing for the float seconds of the TIME      *)
(* column.  The relative tolerance is the rational rtol_num / RtolDen.     *)
(* time_dict, a dict in insertion order, is a sequence of <<key, value>>   *)
(* pairs.                                                                  *)
(***************************************************************************)

\* The largest number of main-table rows and the largest timestamp drawn.
MaxCalRows == 4

MaxTime == 4

\* The denominator of the relative tolerances drawn.
RtolDen == 4

\* np.isclose(key, time, rtol, atol): |key - time| <= atol + rtol * |time|
IsClose(key, time, rtol_num, atol) ==
    Abs(key - time) * RtolDen <= atol * RtolDen + rtol_num * Abs(time)

DictKeys(d) == [i \in DOMAIN d |-> d[i][1]]

DictHas(d, key) == \E i \in DOMAIN d : d[i][1] = key

DictGet(d, key) == d[CHOOSE i \in DOMAIN d : d[i][1] = key][2]

\* A slip in the de-duplication: the tolerance is not applied, every
\* timestamp not yet in time_dict gets a new index.
DedupExactOnly(time_dict, time_count, time, rtol_num, atol) ==
    IF DictHas(time_dict, time)
    THEN [time_dict |-> time_dict, time_count |-> time_count,
          idx |-> DictGet(time_dict, time)]
    ELSE [time_dict |-> Append(time_dict, <<time, time_count>>),
          time_count |-> time_count + 1, idx |-> time_count]

\* One pass of the loop over tb_main.getcol("TIME"): the new time_dict and
\* time_count and the entry appended to row_timeidx_map.  For a timestamp
\* that is close to earlier ones, the value stored is
\* np.where(close_check)[0][0], the position of the first close key in
\* list(time_dict).
DedupTime(time_dict, time_count, time, rtol_num, atol) ==
    IF DictHas(time_dict, time)
    THEN [time_dict |-> time_dict, time_count |-> time_count,
          idx |-> DictGet(time_dict, time)]
    ELSE LET keys == DictKeys(time_dict)
             close == {i \in DOMAIN keys : IsClose(keys[i], time, rtol_num, atol)}
         IN  IF close # {}
             THEN LET first == (CHOOSE i \in close : \A j \in close : i <= j) - 1
                  IN  [time_dict |-> Append(time_dict, <<time, first>>),
                       time_count |-> time_count, idx |-> first]
             ELSE [time_dict |-> Append(time_dict, <<time, time_count>>),
                   time_count |-> time_count + 1, idx |-> time_count]

CalrInit ==
    \E times \in SeqsOf(0..MaxTime, 1, MaxCalRows) :
    \E rtol_num, atol \in 0..1 :
        calr = [ pc |-> "dedup", TIME |-> times, rtol_num |-> rtol_num, atol |-> atol,
                 row |-> 0, time_dict |-> <<>>, row_timeidx_map |-> <<>>,
                 time_count |-> 0, Ntimes |-> -1, time_array |-> <<>>,
                 outcome |-> None ]

\* One pass of the de-duplication loop.
CalrDedupRow ==
    /\ calr.pc = "dedup"
    /\ calr.row < Len(calr.TIME)
    /\ LET r == DedupTime(calr.time_dict, calr.time_count, calr.TIME[calr.row + 1],
                          calr.rtol_num, calr.atol)
       IN  calr' = [calr EXCEPT !.row = @ + 1,
                                !.time_dict = r.time_dict,
                                !.time_count = r.time_count,
                                !.row_timeidx_map = Append(@, r.idx)]
    /\ UNCHANGED <<fr, ant, hist, freq, calw, io>>

\* The arrays over the time axis are made with time_count entries.
CalrAllocate ==
    /\ calr.pc = "dedup"
    /\ calr.row = Len(calr.TIME)
    /\ calr' = [calr EXCEPT !.pc = "scatter", !.row = 0,
                            !.Ntimes = calr.time_count,
                            !.time_array = [i \in 1..calr.time_count |-> 0]]
    /\ UNCHANGED <<fr, ant, hist, freq, calw, io>>

\* One pass of the main loop, for a row whose antenna and window are in
\* the lookups: the row's values go to its time index, and an index past
\* the end of the time axis raises an IndexError, which the loop's
\* `except KeyError` does not catch.
CalrScatterRow ==
    /\ calr.pc = "scatter"
    /\ calr.row < Len(calr.TIME)
    /\ LET time_idx == calr.row_timeidx_map[calr.row + 1]
       IN  IF time_idx >= calr.Ntimes
           THEN calr' = [calr EXCEPT !.pc = "raised", !.outcome = "IndexError"]
           ELSE calr' = [calr EXCEPT !.row = @ + 1,
                            !.time_array[time_idx + 1] = calr.TIME[calr.row + 1]]
    /\ UNCHANGED <<fr, ant, hist, freq, calw, io>>

\* The main loop has passed every row.
CalrDone ==
    /\ calr.pc = "scatter"
    /\ calr.row = Len(calr.TIME)
    /\ calr' = [calr EXCEPT !.pc = "done", !.outcome = "return"]
    /\ UNCHANGED <<fr, ant, hist, freq, calw, io>>

CalrNext == CalrDedupRow \/ CalrAllocate \/ CalrScatterRow \/ CalrDone

InitCalRead ==
    /\ CalrInit
    /\ fr = Idle /\ ant = Idle /\ hist = Idle /\ calw = Idle /\ freq = Idle /\ io = Idle

SpecCalRead == InitCalRead /\ [][CalrNext]_vars

\* Whether the timestamp of row r matches, within the tolerance, the
\* timestamp of an earlier row q (rows counted from 1).
MatchesEarlier(q, r) ==
    q < r /\ IsClose(calr.TIME[q], calr.TIME[r], calr.rtol_num, calr.atol)

\* The first row whose timestamp the timestamp of row r matches.
FirstMatch(r) ==
    CHOOSE q \in 1..(r - 1) : MatchesEarlier(q, r)
                              /\ \A p \in 1..(q - 1) : ~MatchesEarlier(p, r)

\* C5: a row whose timestamp matches a previously seen timestamp gets the
\* time index that was assigned to that earlier timestamp, and every row's
\* time index lies in 0..Ntimes-1.
C5_TimeIndexInRange ==
    calr.pc \in {"scatter", "done", "raised"} =>
        \A r \in DOMAIN calr.TIME :
            /\ calr.row_timeidx_map[r] \in 0..(calr.Ntimes - 1)
            /\ (\E q \in 1..(r - 1) : MatchesEarlier(q, r))
                  => calr.row_timeidx_map[r] = calr.row_timeidx_map[FirstMatch(r)]

\* The rows whose timestamp matches no earlier timestamp.
NewTimeRows == {r \in DOMAIN calr.TIME : \A q \in 1..(r - 1) : ~MatchesEarlier(q, r)}

\* C6 (amended): Ntimes equals the number of row timestamps that are within
\* tolerance of no earlier row timestamp: a new index is created only for a
\* timestamp that matches no earlier timestamp, so t, t+d, u with d inside
\* and u outside the tolerance give 2 indices, not 3.  (Timestamps that
\* chain, each within tolerance of an earlier one, share one count even
\* when they are not pairwise within tolerance.)
C6_NtimesCountsNewTimestamps ==
    calr.pc \in {"scatter", "done", "raised"} =>
        /\ calr.Ntimes = Cardinality(NewTimeRows)
        /\ (Len(calr.TIME) = 3 /\ MatchesEarlier(1, 2)
              /\ ~IsClose(calr.TIME[1], calr.TIME[3], calr.rtol_num, calr.atol)
              /\ ~IsClose(calr.TIME[2], calr.TIME[3], calr.rtol_num, calr.atol))
              => calr.Ntimes = 2

\* The table held t, t+d, u and the reader made 2 time indices.
C6_Witness ==
    /\ calr.pc = "done"
    /\ calr.TIME = <<0, 1, 3>> /\ calr.atol = 1 /\ calr.rtol_num = 0
    /\ calr.Ntimes = 2

\* Two timestamps are within tolerance of each other, whichever of the two
\* the relative tolerance is taken of.
PairClose(a, b) ==
    IsClose(a, b, calr.rtol_num, calr.atol) \/ IsClose(b, a, calr.rtol_num, calr.atol)

\* Whether the timestamps can be split into n groups (some may be empty)
\* that are each pairwise within tolerance.
SplitsInto(n) ==
    \E g \in [Range(calr.TIME) -> 1..n] :
        \A a, b \in Range(calr.TIME) : g[a] = g[b] => PairClose(a, b)

\* C6 as stated: Ntimes equals the number of groups of row timestamps that
\* are pairwise within tolerance (the least number of such groups that
\* hold every timestamp).
C6_NtimesIsGroupCount_AsStated ==
    calr.pc \in {"scatter", "done", "raised"} =>
        /\ SplitsInto(calr.Ntimes)
        /\ ~SplitsInto(calr.Ntimes - 1)

(***************************************************************************)
(* uvcal/ms_cal.py: write_ms_cal, the main table.                          *)
(*                                                                         *)
(* The arrays of the object are indexed from 1 here; row numbers, antenna  *)
(* numbers, window positions and time indices are counted from 0 as in the *)
(* code, so row r of the table is entry r + 1 of a column.  Njones is 1    *)
(* (pol_order is the Ellipsis, which keeps the last axis as it is).  Julian *)
(* dates are counted in half days, which makes the MJD offset an integer.  *)
(* An optional per-time array that is None is the empty sequence.          *)
(***************************************************************************)
MaxNtimes == 2
MaxNfreqs == 3
MaxCalAnt == 2

\* 2400000.5 days, in half days.
MjdOffset == 4800001

SecondsPerHalfDay == 43200

\* Time(jd, format="jd", scale="utc").mjd * 86400.0
JdToMjdSeconds(jd) == (jd - MjdOffset) * SecondsPerHalfDay

\* np.unique(x, return_inverse=True): the sorted distinct values and, for
\* every entry of x, its position (from 1) among them.
Unique(x) == SortedSeq(Range(x))

UniqueInverse(x) ==
    [i \in DOMAIN x |-> CHOOSE k \in DOMAIN Unique(x) : Unique(x)[k] = x[i]]

\* np.arange(n)
Arange(n) == [k \in 1..n |-> k - 1]

\* np.tile(x, n): the whole of x, n times over.
Tile(x, n) == [k \in 1..(Len(x) * n) |-> x[((k - 1) % Len(x)) + 1]]

\* np.repeat(x, n): every entry of x n times in a row.
Repeat(x, n) == [k \in 1..(Len(x) * n) |-> x[((k - 1) \div n) + 1]]

\* np.zeros_like(x, dtype=int)
ZerosLike(x) == [k \in DOMAIN x |-> 0]

\* np.full_like(x, v)
FullLike(x, v) == [k \in DOMAIN x |-> v]

\* Nants_casa = np.max(self.antenna_numbers) + 1
NantsCasa(c) == SeqMax(c.antenna_numbers) + 1

CalNspws(c) == Len(c.spw_array)

CalNfreqs(c) == Len(c.flex_spw_id_array)

\* spw_sel_dict[spw_id]: the channels (from 1) whose flex_spw_id_array entry
\* is spw_id, in ascending order; spw_nchan is their number.
SpwSel(c, spw_id) ==
    SortedSeq({ch \in DOMAIN c.flex_spw_id_array : c.flex_spw_id_array[ch] = spw_id})

\* The row number in the FIELD table of every time's phase centre: the
\* position (from 0) of its id in phase_center_catalog, 0 for an id the
\* catalog does not hold.
FieldIds(c) ==
    [t \in DOMAIN c.phase_center_id_array |->
        LET hits == {idx \in DOMAIN c.phase_center_catalog :
                        c.phase_center_catalog[idx] = c.phase_center_id_array[t]}
        IN  IF hits = {} THEN 0
            ELSE (CHOOSE idx \in hits : \A j \in hits : j <= idx) - 1]

\* The eight per-row arrays that write_ms_cal hands to putcol.
ScalarArrays(c) ==
    LET P == NantsCasa(c)
        u == Unique(c.time_array)
        time_ind == UniqueInverse(c.time_array)
        mjd == [k \in DOMAIN u |-> JdToMjdSeconds(u[k])]
        times == [t \in DOMAIN time_ind |-> mjd[time_ind[t]]]
        ant_array == Tile(Arange(P), c.Ntimes * CalNspws(c))
        time_array == Tile(Repeat(times, P), CalNspws(c))
        spw_id_array == Repeat(Arange(CalNspws(c)), P * c.Ntimes)
    IN  [ TIME |-> time_array,
          FIELD_ID |-> IF c.phase_center_id_array = <<>>
                       THEN ZerosLike(time_array)
                       ELSE Tile(Repeat(FieldIds(c), P), CalNspws(c)),
          SPECTRAL_WINDOW_ID |-> spw_id_array,
          ANTENNA1 |-> ant_array,
          ANTENNA2 |-> FullLike(ant_array, c.antenna_numbers[c.ref_index]),
          INTERVAL |-> Tile(Repeat(c.integration_time, P), CalNspws(c)),
          SCAN_NUMBER |-> IF c.scan_number_array = <<>>
                          THEN ZerosLike(time_array)
                          ELSE Tile(Repeat(c.scan_number_array, P), CalNspws(c)),
          OBSERVATION_ID |-> ZerosLike(spw_id_array) ]

\* The object's arrays, by (antenna position i, channel ch, time t), all
\* from 1.  Every gain and quality value names the place it came from.
GainAt(i, ch, t) == <<"gain", i, ch, t>>

FlagAt(i, ch, t) == (i + ch + t) % 2 = 0

QualityAt(i, ch, t) == <<"quality", i, ch, t>>

\* The position (from 1) in self.ant_array whose values the assignment
\* new_subarr[:, self.ant_array, :, :] = subarr leaves at padded antenna a,
\* 0 when a is padding.
DataIndexOf(c, a) ==
    LET hits == {i \in DOMAIN c.ant_array : c.ant_array[i] = a}
    IN  IF hits = {} THEN 0 ELSE CHOOSE i \in hits : \A j \in hits : j <= i

\* data_dict[item] of the window at position count of spw_array, after the
\* transpose, the padding and the reshape: Ntimes * Nants_casa cells with the
\* antenna the fastest axis, each cell the window's channels.
DataSegment(c, count, item) ==
    LET P == NantsCasa(c)
        spw_sel == SpwSel(c, c.spw_array[count + 1])
    IN  [k \in 1..(c.Ntimes * P) |->
            LET t == ((k - 1) \div P) + 1
                i == DataIndexOf(c, (k - 1) % P)
            IN  [n \in DOMAIN spw_sel |->
                    CASE item = "CPARAM" ->
                            IF i = 0 THEN 0 ELSE GainAt(i, spw_sel[n], t)
                      [] item = "FLAG" ->
                            IF i = 0 THEN TRUE ELSE FlagAt(i, spw_sel[n], t)
                      [] item = "PARAMERR" ->
                            IF i = 0 THEN 0
                            ELSE IF c.has_quality THEN QualityAt(i, spw_sel[n], t) ELSE 1
                      [] OTHER -> 0]]

\* ms.putcol(name, value, startrow, nrow) on a column col whose rows all
\* exist: rows startrow .. startrow + nrow - 1 take the entries of value.
PutCol(col, value, startrow, nrow) ==
    [r \in DOMAIN col |->
        IF startrow < r /\ r <= startrow + nrow /\ r - startrow <= Len(value)
        THEN value[r - startrow] ELSE col[r]]

\* The distinct sequences over S of length lo..hi.
DistinctSeqs(S, lo, hi) ==
    {q \in SeqsOf(S, lo, hi) : \A i, j \in DOMAIN q : i # j => q[i] # q[j]}

SpwIds == {0, 1}

CatalogIds == <<7, 3>>

CalwInit ==
    \E Ntimes \in 1..MaxNtimes :
    \E time_order \in DistinctSeqs(1..Ntimes, Ntimes, Ntimes) :
    \E has_scan, has_field, has_quality \in BOOLEAN :
    \E antenna_numbers \in DistinctSeqs(0..MaxCalAnt, 1, 2) :
    \E ant_array \in DistinctSeqs(Range(antenna_numbers), 1, 2) :
    \E spw_array \in DistinctSeqs(SpwIds, 1, 2) :
    \E flex_spw_id_array \in SeqsOf(Range(spw_array), Len(spw_array), MaxNfreqs) :
        /\ Range(flex_spw_id_array) = Range(spw_array)
        /\ calw = [ pc |-> "start", outcome |-> None,
                    Ntimes |-> Ntimes,
                    time_array |-> [t \in 1..Ntimes |-> MjdOffset + time_order[t]],
                    integration_time |-> [t \in 1..Ntimes |-> 10 * t],
                    scan_number_array |->
                        IF has_scan THEN [t \in 1..Ntimes |-> 5 - t] ELSE <<>>,
                    phase_center_id_array |->
                        IF has_field
                        THEN [t \in 1..Ntimes |-> CatalogIds[(t % 2) + 1]]
                        ELSE <<>>,
                    phase_center_catalog |-> CatalogIds,
                    has_quality |-> has_quality,
                    antenna_numbers |-> antenna_numbers,
                    ref_index |-> 1,
                    ant_array |-> ant_array,
                    spw_array |-> spw_array,
                    flex_spw_id_array |-> flex_spw_id_array,
                    count |-> 0,
                    nrows |-> 0,
                    TIME |-> <<>>, FIELD_ID |-> <<>>, SPECTRAL_WINDOW_ID |-> <<>>,
                    ANTENNA1 |-> <<>>, ANTENNA2 |-> <<>>, INTERVAL |-> <<>>,
                    SCAN_NUMBER |-> <<>>, OBSERVATION_ID |-> <<>>,
                    CPARAM |-> <<>>, FLAG |-> <<>>, PARAMERR |-> <<>>, SNR |-> <<>> ]

\* ms.addrows(self.Ntimes * self.Nfreqs * Nants_casa): the rows exist, with
\* nothing written to them yet.
CalwAddRows ==
    /\ calw.pc = "start"
    /\ LET n == calw.Ntimes * CalNfreqs(calw) * NantsCasa(calw)
           blank == [r \in 1..n |-> 0]
           empty == [r \in 1..n |-> <<>>]
       IN  calw' = [calw EXCEPT !.pc = "allocated", !.nrows = n,
                        !.TIME = blank, !.FIELD_ID = blank,
                        !.SPECTRAL_WINDOW_ID = blank, !.ANTENNA1 = blank,
                        !.ANTENNA2 = blank, !.INTERVAL = blank,
                        !.SCAN_NUMBER = blank, !.OBSERVATION_ID = blank,
                        !.CPARAM = empty, !.FLAG = empty, !.PARAMERR = empty,
                        !.SNR = empty]
    /\ UNCHANGED <<fr, ant, hist, calr, freq, io>>

\* The eight putcol calls of whole columns.  What the table library does
\* with an array that is shorter than the table is not the code's to say:
\* it either refuses the first of them or fills the leading rows.
CalwPutScalars ==
    /\ calw.pc = "allocated"
    /\ LET a == ScalarArrays(calw)
           n == calw.nrows
       IN  \E refuses \in BOOLEAN :
             IF Len(a.TIME) # n /\ refuses
             THEN calw' = [calw EXCEPT !.pc = "raised", !.outcome = "RuntimeError"]
             ELSE calw' = [calw EXCEPT !.pc = "data",
                        !.TIME = PutCol(@, a.TIME, 0, n),
                        !.FIELD_ID = PutCol(@, a.FIELD_ID, 0, n),
                        !.SPECTRAL_WINDOW_ID = PutCol(@, a.SPECTRAL_WINDOW_ID, 0, n),
                        !.ANTENNA1 = PutCol(@, a.ANTENNA1, 0, n),
                        !.ANTENNA2 = PutCol(@, a.ANTENNA2, 0, n),
                        !.INTERVAL = PutCol(@, a.INTERVAL, 0, n),
                        !.SCAN_NUMBER = PutCol(@, a.SCAN_NUMBER, 0, n),
                        !.OBSERVATION_ID = PutCol(@, a.OBSERVATION_ID, 0, n)]
    /\ UNCHANGED <<fr, ant, hist, calr, freq, io>>

\* One pass of the loop over spw_array: the window's segment of the three
\* data columns.
CalwPutWindow ==
    /\ calw.pc = "data"
    /\ calw.count < CalNspws(calw)
    /\ LET seg == NantsCasa(calw) * calw.Ntimes
           startrow == calw.count * seg
       IN  calw' = [calw EXCEPT !.count = @ + 1,
                        !.CPARAM = PutCol(@, DataSegment(calw, calw.count, "CPARAM"), startrow, seg),
                        !.FLAG = PutCol(@, DataSegment(calw, calw.count, "FLAG"), startrow, seg),
                        !.PARAMERR = PutCol(@, DataSegment(calw, calw.count, "PARAMERR"), startrow, seg),
                        !.SNR = PutCol(@, DataSegment(calw, calw.count, "SNR"), startrow, seg)]
    /\ UNCHANGED <<fr, ant, hist, calr, freq, io>>

\* The table is closed once every window is written.
CalwDone ==
    /\ calw.pc = "data"
    /\ calw.count = CalNspws(calw)
    /\ calw' = [calw EXCEPT !.pc = "done", !.outcome = "return"]
    /\ UNCHANGED <<fr, ant, hist, calr, freq, io>>

CalwNext == CalwAddRows \/ CalwPutScalars \/ CalwPutWindow \/ CalwDone

InitCalWrite ==
    /\ CalwInit
    /\ fr = Idle /\ ant = Idle /\ hist = Idle /\ calr = Idle /\ freq = Idle /\ io = Idle

SpecCalWrite == InitCalWrite /\ [][CalwNext]_vars

\* The row budget: Ntimes x Nspws x (max antenna number + 1).
RowBudget == calw.Ntimes * CalNspws(calw) * NantsCasa(calw)

ScalarColumnNames ==
    {"TIME", "FIELD_ID", "SPECTRAL_WINDOW_ID", "ANTENNA1", "ANTENNA2", "INTERVAL",
     "SCAN_NUMBER", "OBSERVATION_ID"}

\* C7: the rows write_ms_cal adds to the main table are exactly
\* Ntimes x Nspws x (max antenna number + 1); every per-row array it writes
\* has that many entries, and the per-window data segments cover that many
\* rows in all.
C7_RowBudget ==
    calw.pc \in {"allocated", "data", "done", "raised"} =>
        /\ calw.nrows = RowBudget
        /\ \A name \in ScalarColumnNames : Len(ScalarArrays(calw)[name]) = calw.nrows
        /\ CalNspws(calw) * (NantsCasa(calw) * calw.Ntimes) = calw.nrows

\* The same, for a table whose windows all have one channel.
C7_RowBudget_OneChannelWindows ==
    (calw.pc \in {"allocated", "data", "done", "raised"} /\ CalNfreqs(calw) = CalNspws(calw)) =>
        /\ calw.nrows = RowBudget
        /\ \A name \in ScalarColumnNames : Len(ScalarArrays(calw)[name]) = calw.nrows
        /\ CalNspws(calw) * (NantsCasa(calw) * calw.Ntimes) = calw.nrows

\* What the claimed axis order puts in row r (from 0) of the main table.
RowAsOrdered(r) ==
    LET P == NantsCasa(calw)
        w == r \div (calw.Ntimes * P)
        t == ((r \div P) % calw.Ntimes) + 1
        a == r % P
        i == DataIndexOf(calw, a)
        chans == IF w < CalNspws(calw) THEN SpwSel(calw, calw.spw_array[w + 1]) ELSE <<>>
    IN  /\ calw.SPECTRAL_WINDOW_ID[r + 1] = w
        /\ calw.ANTENNA1[r + 1] = a
        /\ calw.TIME[r + 1] = JdToMjdSeconds(calw.time_array[t])
        /\ calw.INTERVAL[r + 1] = calw.integration_time[t]
        /\ calw.SCAN_NUMBER[r + 1] =
               IF calw.scan_number_array = <<>> THEN 0 ELSE calw.scan_number_array[t]
        /\ calw.FIELD_ID[r + 1] =
               IF calw.phase_center_id_array = <<>> THEN 0 ELSE FieldIds(calw)[t]
        /\ i # 0 =>
              /\ calw.CPARAM[r + 1] = [n \in DOMAIN chans |-> GainAt(i, chans[n], t)]
              /\ calw.FLAG[r + 1] = [n \in DOMAIN chans |-> FlagAt(i, chans[n], t)]
              /\ calw.PARAMERR[r + 1] =
                     [n \in DOMAIN chans |->
                         IF calw.has_quality THEN QualityAt(i, chans[n], t) ELSE 1]

\* C8: in the table write_ms_cal has written, the window is the outermost
\* axis, then the time, then the antenna: every row r holds the window
\* r div (Ntimes*P), the time, interval, scan and field of time index
\* (r div P) mod Ntimes, the antenna r mod P and the data of that triple.
C8_AxisOrder ==
    calw.pc = "done" => \A r \in 0..(calw.nrows - 1) : RowAsOrdered(r)

\* The same, for the rows inside the row budget only.
C8_AxisOrder_WithinBudget ==
    calw.pc = "done" => \A r \in 0..(RowBudget - 1) : RowAsOrdered(r)

\* Whether row r (from 0) of the main table holds the data of the antenna,
\* time and window the row names: zeros and raised flags for an antenna
\* number that is padding, the object's values otherwise.
RowCarriesItsData(r) ==
    LET a == calw.ANTENNA1[r + 1]
        w == calw.SPECTRAL_WINDOW_ID[r + 1]
        i == DataIndexOf(calw, a)
        chans == SpwSel(calw, calw.spw_array[w + 1])
        ts == {t \in DOMAIN calw.time_array :
                  JdToMjdSeconds(calw.time_array[t]) = calw.TIME[r + 1]}
    IN  /\ ts # {}
        /\ \A t \in ts :
              IF i = 0
              THEN /\ calw.CPARAM[r + 1] = [n \in DOMAIN chans |-> 0]
                   /\ calw.PARAMERR[r + 1] = [n \in DOMAIN chans |-> 0]
                   /\ calw.SNR[r + 1] = [n \in DOMAIN chans |-> 0]
                   /\ calw.FLAG[r + 1] = [n \in DOMAIN chans |-> TRUE]
              ELSE /\ calw.CPARAM[r + 1] = [n \in DOMAIN chans |-> GainAt(i, chans[n], t)]
                   /\ calw.FLAG[r + 1] = [n \in DOMAIN chans |-> FlagAt(i, chans[n], t)]
                   /\ calw.PARAMERR[r + 1] =
                          [n \in DOMAIN chans |->
                              IF calw.has_quality THEN QualityAt(i, chans[n], t) ELSE 1]

\* C25: in every row write_ms_cal writes for a padded antenna number (a
\* number in 0..max antenna number that is not in ant_array) CPARAM,
\* PARAMERR and SNR are zero and FLAG is true for every channel; every row
\* of an antenna in ant_array carries that antenna's gain, flag and quality
\* values for the row's time and window.
C25_PaddedRowsFlagged ==
    calw.pc = "done" => \A r \in 0..(calw.nrows - 1) : RowCarriesItsData(r)

\* The same, for the rows inside the row budget only.
C25_PaddedRowsFlagged_WithinBudget ==
    calw.pc = "done" => \A r \in 0..(RowBudget - 1) : RowCarriesItsData(r)


(***************************************************************************)
(* utils/frequency.py: _check_flex_spw_contiguous.                         *)
(*                                                                         *)
(* An argument that is None is the empty sequence; an array always has at  *)
(* least one entry.                                                        *)
(***************************************************************************)
MaxChans == 3
MaxSpws == 3

\* np.all(a == b) for two one-dimensional arrays: the comparison is
\* entry by entry, an array of one entry is compared with every entry of
\* the other, and any other two lengths cannot be compared.
BroadcastAllEqual(a, b) ==
    CASE Len(a) = Len(b) -> \A i \in DOMAIN a : a[i] = b[i]
      [] Len(a) = 1 -> \A i \in DOMAIN b : b[i] = a[1]
      [] Len(b) = 1 -> \A i \in DOMAIN a : a[i] = b[1]
      [] OTHER -> FALSE

Comparable(a, b) == Len(a) = Len(b) \/ Len(a) = 1 \/ Len(b) = 1

\* n_breaks = np.sum(flex_spw_id_array[1:] != flex_spw_id_array[:-1])
NBreaks(flex_spw_id_array) ==
    Cardinality({i \in 1..(Len(flex_spw_id_array) - 1) :
                    flex_spw_id_array[i + 1] # flex_spw_id_array[i]})

\* A slip in the count of blocks: the breaks are taken for the blocks.
CheckFlexSpwBreaksAsBlocks(spw_array, flex_spw_id_array, strict_shapes) ==
    IF spw_array = <<>> /\ flex_spw_id_array = <<>> THEN "return"
    ELSE IF spw_array = <<>> \/ flex_spw_id_array = <<>> THEN "AssertionError"
    ELSE LET exp_spw_ids == Unique(spw_array)
             flex_ids == Unique(flex_spw_id_array)
         IN  IF strict_shapes /\ ~Comparable(flex_ids, exp_spw_ids) THEN "ValueError"
             ELSE IF ~BroadcastAllEqual(flex_ids, exp_spw_ids) THEN "AssertionError"
             ELSE IF NBreaks(flex_spw_id_array) # Len(spw_array) THEN "ValueError"
             ELSE "return"

\* _check_flex_spw_contiguous: "return", or the exception it ends with.
\* np.unique of None is an array holding None, which equals no window id.
\* Two arrays of lengths that cannot be compared fail the assertion, or,
\* with a numpy that refuses such a comparison (strict_shapes), raise there.
check_flex_spw_contiguous(spw_array, flex_spw_id_array, strict_shapes) ==
    IF spw_array = <<>> /\ flex_spw_id_array = <<>> THEN "return"
    ELSE IF spw_array = <<>> \/ flex_spw_id_array = <<>> THEN "AssertionError"
    ELSE LET exp_spw_ids == Unique(spw_array)
             flex_ids == Unique(flex_spw_id_array)
         IN  IF strict_shapes /\ ~Comparable(flex_ids, exp_spw_ids) THEN "ValueError"
             ELSE IF ~BroadcastAllEqual(flex_ids, exp_spw_ids) THEN "AssertionError"
             ELSE IF NBreaks(flex_spw_id_array) + 1 # Len(spw_array) THEN "ValueError"
             ELSE "return"

FlexInit ==
    \E spw_array \in {<<>>} \cup DistinctSeqs(0..(MaxSpws - 1), 1, MaxSpws) :
    \E flex_spw_id_array \in SeqsOf(0..(MaxSpws - 1), 0, MaxChans) :
        freq = [ pc |-> "contiguous", spw_array |-> spw_array,
                 flex_spw_id_array |-> flex_spw_id_array, outcome |-> None ]

\* One call of _check_flex_spw_contiguous.
FlexCheck ==
    /\ freq.pc = "contiguous"
    /\ \E strict_shapes \in BOOLEAN :
          freq' = [freq EXCEPT !.pc = "checked",
                      !.outcome = check_flex_spw_contiguous(freq.spw_array,
                                      freq.flex_spw_id_array, strict_shapes)]
    /\ UNCHANGED <<fr, ant, hist, calr, calw, io>>

FlexNext == FlexCheck

InitFlexSpw ==
    /\ FlexInit
    /\ fr = Idle /\ ant = Idle /\ hist = Idle /\ calr = Idle /\ calw = Idle /\ io = Idle

SpecFlexSpw == InitFlexSpw /\ [][FlexNext]_vars

\* The channels of window w are one block: some channel is of w, and
\* every channel between two channels of w is of w.
OneBlock(flex, w) ==
    /\ \E i \in DOMAIN flex : flex[i] = w
    /\ \A i, j, k \in DOMAIN flex :
          (i < j /\ j < k /\ flex[i] = w /\ flex[k] = w) => flex[j] = w

\* Every window of spw_array is one block and the blocks make up the
\* whole sequence.
Contiguous(spw_array, flex) ==
    /\ \A i \in DOMAIN spw_array : OneBlock(flex, spw_array[i])
    /\ \A ch \in DOMAIN flex : flex[ch] \in Range(spw_array)

\* Channels of different windows are interspersed: a channel of another
\* window lies between two channels of one window.
Interspersed(flex) ==
    \E i, j, k \in DOMAIN flex : i < j /\ j < k /\ flex[i] = flex[k] /\ flex[j] # flex[i]

\* C9: _check_flex_spw_contiguous returns without an error exactly when the
\* channels of every window of spw_array form one contiguous block, which
\* is when the sequence has exactly Nspws - 1 transitions; it raises for
\* every sequence with interspersed channels, and returns at once when both
\* arguments are None.
C9_ContiguousIffAccepted ==
    freq.pc = "checked" =>
        /\ (freq.spw_array = <<>> /\ freq.flex_spw_id_array = <<>>) => freq.outcome = "return"
        /\ (freq.spw_array # <<>> /\ freq.flex_spw_id_array # <<>>) =>
              /\ freq.outcome = "return" <=> Contiguous(freq.spw_array, freq.flex_spw_id_array)
              /\ Range(freq.flex_spw_id_array) = Range(freq.spw_array) =>
                    (freq.outcome = "return" <=>
                        NBreaks(freq.flex_spw_id_array) = Len(freq.spw_array) - 1)
              /\ Interspersed(freq.flex_spw_id_array) =>
                    freq.outcome \in {"ValueError", "AssertionError"}

\* Three windows in three blocks were accepted.
C9_Witness ==
    /\ freq.pc = "checked"
    /\ freq.outcome = "return"
    /\ Len(freq.spw_array) = 3
    /\ NBreaks(freq.flex_spw_id_array) = 2

\* Two windows with interspersed channels were refused.
C9_WitnessInterspersed ==
    /\ freq.pc = "checked"
    /\ freq.outcome = "ValueError"
    /\ Len(freq.spw_array) = 2
    /\ Range(freq.flex_spw_id_array) = Range(freq.spw_array)
    /\ Interspersed(freq.flex_spw_id_array)

(***************************************************************************)
(* utils/frequency.py: _check_freq_spacing.                                *)
(*                                                                         *)
(* Frequencies and widths are integers; a tolerance pair is                *)
(* <<rtol_num, atol>> with rtol = rtol_num / RtolDen.                      *)
(***************************************************************************)
SeqMin(s) == CHOOSE m \in Range(s) : \A x \in Range(s) : m <= x

\* tools._test_array_constant(array, tols): an array of at most one entry
\* is constant, and so is one whose least and greatest entries are equal or
\* close.
test_array_constant(array, tols) ==
    \/ Len(array) <= 1
    \/ SeqMin(array) = SeqMax(array)
    \/ IsClose(SeqMin(array), SeqMax(array), tols[1], tols[2])

\* np.diff(x)
Diff(x) == [i \in 1..(Len(x) - 1) |-> x[i + 1] - x[i]]

\* x[mask] for a mask given as the ascending sequence of its channels.
Take(x, sel) == [i \in DOMAIN sel |-> x[sel[i]]]

\* np.allclose(freq_spacing, np.mean(widths) * freq_dir, rtol, atol), with
\* both sides of every comparison multiplied by the number of widths.
AllCloseToMean(freq_spacing, widths, freq_dir, tols) ==
    LET n == Len(widths)
        total == SumSeq(widths) * freq_dir
    IN  \A i \in DOMAIN freq_spacing :
            Abs(freq_spacing[i] * n - total) * RtolDen
                <= tols[2] * n * RtolDen + tols[1] * Abs(total)

\* The channels (ascending) that the loop of _check_freq_spacing looks at
\* for entry spw_id of spw_array: all of them when flex_spw_id_array is
\* None (the mask is the Ellipsis).
WindowChannels(freq_array, flex_spw_id_array, spw_id) ==
    IF flex_spw_id_array = <<>> THEN [ch \in DOMAIN freq_array |-> ch]
    ELSE SortedSeq({ch \in DOMAIN flex_spw_id_array : flex_spw_id_array[ch] = spw_id})

\* -1.0 if all(freq_spacing < 0) else 1.0
FreqDir(freq_spacing) ==
    IF \A i \in DOMAIN freq_spacing : freq_spacing[i] < 0 THEN -1 ELSE 1

\* A slip in the direction: the spacing is compared with the width as if
\* the frequencies always went up.
WindowFlagsAscendingOnly(freq_array, freq_tols, channel_width, channel_width_tols, sel) ==
    LET freq_spacing == Diff(Take(freq_array, sel))
        uneven == ~test_array_constant(freq_spacing, freq_tols)
    IN  IF channel_width = <<>>
        THEN [spacing |-> uneven, chanwidth |-> FALSE]
        ELSE IF ~test_array_constant(Take(channel_width, sel), channel_width_tols)
        THEN [spacing |-> TRUE, chanwidth |-> FALSE]
        ELSE [spacing |-> uneven,
              chanwidth |-> ~AllCloseToMean(freq_spacing, Take(channel_width, sel),
                                            1, channel_width_tols)]

\* What one pass of the loop finds for the channels sel.
WindowFlags(freq_array, freq_tols, channel_width, channel_width_tols, sel) ==
    LET freq_spacing == Diff(Take(freq_array, sel))
        freq_dir == FreqDir(freq_spacing)
        uneven == ~test_array_constant(freq_spacing, freq_tols)
    IN  IF channel_width = <<>>
        THEN [spacing |-> uneven, chanwidth |-> FALSE]
        ELSE IF ~test_array_constant(Take(channel_width, sel), channel_width_tols)
        THEN [spacing |-> TRUE, chanwidth |-> FALSE]
        ELSE [spacing |-> uneven,
              chanwidth |-> ~AllCloseToMean(freq_spacing, Take(channel_width, sel),
                                            freq_dir, channel_width_tols)]

\* _check_freq_spacing: the exception it ends with or "return", and the
\* two flags as they stand at that point.
check_freq_spacing(freq_array, freq_tols, channel_width, channel_width_tols, spw_array, flex_spw_id_array, raise_errors, strict_shapes) ==
    LET contiguous == check_flex_spw_contiguous(spw_array, flex_spw_id_array, strict_shapes)
        passes == IF spw_array = <<>> THEN <<None>> ELSE spw_array
        looked == {i \in DOMAIN passes :
                      Len(WindowChannels(freq_array, flex_spw_id_array, passes[i])) > 0}
        found(i) == WindowFlags(freq_array, freq_tols, channel_width, channel_width_tols,
                                WindowChannels(freq_array, flex_spw_id_array, passes[i]))
        spacing_error == \E i \in looked : found(i).spacing
        chanwidth_error == \E i \in looked : found(i).chanwidth
    IN  IF contiguous # "return"
        THEN [outcome |-> contiguous, spacing_error |-> FALSE, chanwidth_error |-> FALSE]
        ELSE [outcome |-> IF raise_errors /\ (spacing_error \/ chanwidth_error)
                          THEN "ValueError" ELSE "return",
              spacing_error |-> spacing_error,
              chanwidth_error |-> chanwidth_error]

FreqValues == {0, 1, 2, 3}

WidthValues == {1, 2}

TolChoices == {<<0, 0>>, <<0, 1>>}

SpacingInit ==
    \E freq_array \in SeqsOf(FreqValues, 1, MaxChans) :
    \E channel_width \in {<<>>} \cup [DOMAIN freq_array -> WidthValues] :
    \E spw_array \in {<<>>, <<0>>, <<1, 0>>} :
    \E flex_spw_id_array \in {<<>>} \cup [DOMAIN freq_array -> Range(spw_array)] :
    \E freq_tols, channel_width_tols \in TolChoices :
        /\ (spw_array = <<>>) = (flex_spw_id_array = <<>>)
        /\ freq = [ pc |-> "spacing", freq_array |-> freq_array, freq_tols |-> freq_tols,
                    channel_width |-> channel_width,
                    channel_width_tols |-> channel_width_tols,
                    spw_array |-> spw_array, flex_spw_id_array |-> flex_spw_id_array,
                    raise_errors |-> FALSE, outcome |-> None,
                    spacing_error |-> FALSE, chanwidth_error |-> FALSE ]

\* One call of _check_freq_spacing.
SpacingCheck ==
    /\ freq.pc = "spacing"
    /\ \E raise_errors, strict_shapes \in BOOLEAN :
          LET r == check_freq_spacing(freq.freq_array, freq.freq_tols, freq.channel_width,
                       freq.channel_width_tols, freq.spw_array, freq.flex_spw_id_array,
                       raise_errors, strict_shapes)
          IN  freq' = [freq EXCEPT !.pc = "checked", !.raise_errors = raise_errors,
                          !.outcome = r.outcome, !.spacing_error = r.spacing_error,
                          !.chanwidth_error = r.chanwidth_error]
    /\ UNCHANGED <<fr, ant, hist, calr, calw, io>>

SpacingNext == SpacingCheck

InitFreqSpacing ==
    /\ SpacingInit
    /\ fr = Idle /\ ant = Idle /\ hist = Idle /\ calr = Idle /\ calw = Idle /\ io = Idle

SpecFreqSpacing == InitFreqSpacing /\ [][SpacingNext]_vars

\* The windows of the axis that was checked, each as its channels in
\* ascending order: the whole axis when there are no windows.
CheckedWindows ==
    IF freq.spw_array = <<>> THEN {[ch \in DOMAIN freq.freq_array |-> ch]}
    ELSE {SortedSeq({ch \in DOMAIN freq.flex_spw_id_array :
                        freq.flex_spw_id_array[ch] = freq.spw_array[i]}) :
             i \in DOMAIN freq.spw_array}

\* The channels are grouped by window, as _check_freq_spacing needs them.
Grouped ==
    \/ freq.spw_array = <<>> /\ freq.flex_spw_id_array = <<>>
    \/ /\ freq.spw_array # <<>> /\ freq.flex_spw_id_array # <<>>
       /\ Contiguous(freq.spw_array, freq.flex_spw_id_array)

\* Two of the values x differ by more than the tolerance.
NotConstant(x, tols) ==
    \E i, j \in DOMAIN x : ~IsClose(x[i], x[j], tols[1], tols[2])

\* The frequency differences of the channels sel are not all the same.
UnevenSpacing(sel) == NotConstant(Diff(Take(freq.freq_array, sel)), freq.freq_tols)

\* The declared widths of the channels sel are not all the same.
UnevenWidths(sel) ==
    /\ freq.channel_width # <<>>
    /\ NotConstant(Take(freq.channel_width, sel), freq.channel_width_tols)

\* Some frequency difference of the channels sel is not the mean declared
\* width, taken with the sign of the direction of the frequencies.
MeanWidthMismatch(sel) ==
    LET d == Diff(Take(freq.freq_array, sel))
        w == Take(freq.channel_width, sel)
    IN  \E i \in DOMAIN d :
            Abs(d[i] * Len(w) - SumSeq(w) * FreqDir(d)) * RtolDen
                > freq.channel_width_tols[2] * Len(w) * RtolDen
                    + freq.channel_width_tols[1] * Abs(SumSeq(w))

\* Some frequency difference of the channels sel is not the declared width
\* of some channel of sel, taken with the sign of the direction.
WidthMismatch(sel) ==
    LET d == Diff(Take(freq.freq_array, sel))
        w == Take(freq.channel_width, sel)
    IN  \E i \in DOMAIN d : \E ch \in DOMAIN w :
            ~IsClose(d[i], w[ch] * FreqDir(d),
                     freq.channel_width_tols[1], freq.channel_width_tols[2])

\* With raise_errors a set flag ends the call in a ValueError; otherwise the
\* call returns.
RaisesOnFlag ==
    freq.outcome =
        IF freq.raise_errors /\ (freq.spacing_error \/ freq.chanwidth_error)
        THEN "ValueError" ELSE "return"

\* C10, as stated: the spacing flag is set iff in some window the frequency
\* differences are not constant within tolerance, and the channel-width
\* flag is set iff in some window the declared channel width does not match
\* the sign-aware frequency difference.
C10_TwoIndependentFlags_AsStated ==
    (freq.pc = "checked" /\ Grouped) =>
        /\ freq.spacing_error <=> \E sel \in CheckedWindows : UnevenSpacing(sel)
        /\ freq.chanwidth_error <=>
              (freq.channel_width # <<>> /\ \E sel \in CheckedWindows : WidthMismatch(sel))
        /\ RaisesOnFlag

\* The two flags as _check_freq_spacing sets them.
FlagsAsSet ==
    (freq.pc = "checked" /\ Grouped) =>
        /\ freq.spacing_error <=>
              \E sel \in CheckedWindows : UnevenSpacing(sel) \/ UnevenWidths(sel)
        /\ freq.chanwidth_error <=>
              (freq.channel_width # <<>> /\
               \E sel \in CheckedWindows : ~UnevenWidths(sel) /\ MeanWidthMismatch(sel))
        /\ RaisesOnFlag

\* Three axes of three channels with exact tolerances: an evenly spaced
\* axis whose width is its spacing sets no flag, an unevenly spaced axis
\* sets the spacing flag, and an evenly spaced axis with another width sets
\* the channel-width flag.
FlagsOfThreeChannels ==
    (freq.pc = "checked" /\ freq.spw_array = <<>> /\ freq.freq_tols = <<0, 0>>
        /\ freq.channel_width_tols = <<0, 0>> /\ Len(freq.freq_array) = 3
        /\ freq.channel_width # <<>>) =>
        LET f == freq.freq_array
            w == freq.channel_width
            even == f[2] - f[1] = f[3] - f[2]
            one_width == w[1] = w[2] /\ w[2] = w[3]
        IN  /\ (even /\ one_width /\ Abs(f[2] - f[1]) = w[1]) =>
                  (~freq.spacing_error /\ ~freq.chanwidth_error)
            /\ ~even => freq.spacing_error
            /\ (even /\ one_width /\ Abs(f[2] - f[1]) # w[1]) =>
                  (~freq.spacing_error /\ freq.chanwidth_error)

\* C10: the spacing flag is set iff in some window the frequency
\* differences, or the declared channel widths, are not constant within
\* their tolerance; the channel-width flag is set iff channel widths are
\* given and in some window whose widths are constant a frequency
\* difference does not match the mean width with the sign of the direction.
\* An evenly spaced axis whose width is its spacing sets no flag, an
\* unevenly spaced axis sets the spacing flag, an evenly spaced axis with
\* another width sets the channel-width flag.  With raise_errors a set flag
\* raises a ValueError.
C10_SpacingAndWidthFlags == FlagsAsSet /\ FlagsOfThreeChannels

\* Two windows with constant widths, one of them spaced by more than its
\* width: the call ended in the ValueError of the channel-width flag.
C10_Witness ==
    /\ freq.pc = "checked"
    /\ Grouped
    /\ Len(freq.spw_array) = 2
    /\ freq.channel_width # <<>>
    /\ freq.raise_errors
    /\ ~freq.spacing_error
    /\ freq.chanwidth_error
    /\ freq.outcome = "ValueError"

(***************************************************************************)
(* utils/frequency.py: _select_freq_helper.                                *)
(*                                                                         *)
(* Channel and window indices are counted from 0 as in the code; entry i   *)
(* of an index list refers to entry i + 1 of an array of the object.  An   *)
(* argument or a result that is None is the empty sequence: the function   *)
(* raises instead of returning an empty index list.  The filter on         *)
(* polarizations and the one on Jones terms are the same code; sel_arr and *)
(* obj_arr are the numbers asked for and the per-window array of the       *)
(* object.                                                                 *)
(***************************************************************************)
\* np.where(np.isclose(obj_freq_array, freq, rtol, atol))[0]
MatchingChannels(obj_freq_array, frequency, tols) ==
    SortedSeq({ch - 1 : ch \in {c \in DOMAIN obj_freq_array :
                                   IsClose(obj_freq_array[c], frequency, tols[1], tols[2])}})

\* freq_chans after the loop over the first k requested frequencies.
RECURSIVE AppendMatches(_, _, _, _, _)
AppendMatches(freq_chans, frequencies, k, obj_freq_array, tols) ==
    IF k = 0 THEN freq_chans
    ELSE AppendMatches(freq_chans, frequencies, k - 1, obj_freq_array, tols)
             \o MatchingChannels(obj_freq_array, frequencies[k], tols)

\* A slip in the membership test: only the first entry found is kept.
NonzeroFirstIsIn(arr, vals, invert) ==
    LET hits == {i - 1 : i \in {j \in DOMAIN arr : (arr[j] \in Range(vals)) # invert}}
    IN  IF hits = {} THEN <<>> ELSE <<CHOOSE h \in hits : \A g \in hits : h <= g>>

\* np.nonzero(np.isin(arr, vals, invert=invert))[0]
NonzeroIsIn(arr, vals, invert) ==
    SortedSeq({i - 1 : i \in {j \in DOMAIN arr : (arr[j] \in Range(vals)) # invert}})

\* np.intersect1d(a, b)
Intersect1d(a, b) == SortedSeq(Range(a) \cap Range(b))

\* x[inds] for a list of indices counted from 0.
TakeAt(x, inds) == [i \in DOMAIN inds |-> x[inds[i] + 1]]

\* The warning about the spacing of the selected frequencies.
SpacingWarning(flags, warn_freq_spacing) ==
    IF ~warn_freq_spacing THEN None
    ELSE IF flags.spacing_error THEN "not evenly spaced"
    ELSE IF flags.chanwidth_error THEN "not contiguous"
    ELSE None

SelectRaise(kind, selections) ==
    [outcome |-> kind, freq_inds |-> <<>>, spw_inds |-> <<>>, selections |-> selections, warning |-> None]

\* A slip in the last step: the channels are never narrowed to the windows
\* selected, nor drawn from them.
SelectFinishNoNarrowing(has_freq_inds, freq_inds0, has_spw_inds, spw_inds, selections, obj_freq_array, freq_tols, obj_channel_width, channel_width_tols, obj_spw_array, obj_spw_id_array, warn_freq_spacing, strict_shapes) ==
    LET sel_spw_array == IF has_spw_inds THEN TakeAt(obj_spw_array, spw_inds) ELSE <<>>
        of_windows == NonzeroIsIn(obj_spw_id_array, sel_spw_array, FALSE)
        narrowed == FALSE
        has_inds == has_freq_inds \/ narrowed
        freq_inds == IF ~narrowed THEN freq_inds0
                     ELSE IF ~has_freq_inds THEN of_windows
                     ELSE Intersect1d(freq_inds0, of_windows)
        flags == check_freq_spacing(TakeAt(obj_freq_array, freq_inds), freq_tols,
                     IF obj_channel_width = <<>> THEN <<>>
                     ELSE TakeAt(obj_channel_width, freq_inds),
                     channel_width_tols, sel_spw_array,
                     IF obj_spw_id_array = <<>> THEN <<>>
                     ELSE TakeAt(obj_spw_id_array, freq_inds),
                     FALSE, strict_shapes)
    IN  IF has_spw_inds /\ Len(spw_inds) = 0 THEN SelectRaise("ValueError", selections)
        ELSE IF ~has_inds
        THEN [outcome |-> "return", freq_inds |-> <<>>, spw_inds |-> spw_inds,
              selections |-> selections, warning |-> None]
        ELSE IF Len(freq_inds) = 0 THEN SelectRaise("ValueError", selections)
        ELSE IF flags.outcome # "return" THEN SelectRaise(flags.outcome, selections)
        ELSE [outcome |-> "return", freq_inds |-> SortedSeq(Range(freq_inds)),
              spw_inds |-> spw_inds, selections |-> selections,
              warning |-> SpacingWarning(flags, warn_freq_spacing)]

\* _select_freq_helper from the point where spw_inds and freq_inds stand as
\* the three filters left them (lines 471-522); has_spw_inds and
\* has_freq_inds tell a list from None.
SelectFinish(has_freq_inds, freq_inds0, has_spw_inds, spw_inds, selections, obj_freq_array, freq_tols, obj_channel_width, channel_width_tols, obj_spw_array, obj_spw_id_array, warn_freq_spacing, strict_shapes) ==
    LET sel_spw_array == IF has_spw_inds THEN TakeAt(obj_spw_array, spw_inds) ELSE <<>>
        of_windows == NonzeroIsIn(obj_spw_id_array, sel_spw_array, FALSE)
        narrowed == has_spw_inds /\ obj_spw_id_array # <<>>
        has_inds == has_freq_inds \/ narrowed
        freq_inds == IF ~narrowed THEN freq_inds0
                     ELSE IF ~has_freq_inds THEN of_windows
                     ELSE Intersect1d(freq_inds0, of_windows)
        flags == check_freq_spacing(TakeAt(obj_freq_array, freq_inds), freq_tols,
                     IF obj_channel_width = <<>> THEN <<>>
                     ELSE TakeAt(obj_channel_width, freq_inds),
                     channel_width_tols, sel_spw_array,
                     IF obj_spw_id_array = <<>> THEN <<>>
                     ELSE TakeAt(obj_spw_id_array, freq_inds),
                     FALSE, strict_shapes)
    IN  IF has_spw_inds /\ Len(spw_inds) = 0 THEN SelectRaise("ValueError", selections)
        ELSE IF ~has_inds
        THEN [outcome |-> "return", freq_inds |-> <<>>, spw_inds |-> spw_inds,
              selections |-> selections, warning |-> None]
        ELSE IF Len(freq_inds) = 0 THEN SelectRaise("ValueError", selections)
        ELSE IF flags.outcome # "return" THEN SelectRaise(flags.outcome, selections)
        ELSE [outcome |-> "return", freq_inds |-> SortedSeq(Range(freq_inds)),
              spw_inds |-> spw_inds, selections |-> selections,
              warning |-> SpacingWarning(flags, warn_freq_spacing)]

\* _select_freq_helper: what it returns, or the exception it raises.
select_freq_helper(frequencies, freq_chans, obj_freq_array, freq_tols, obj_channel_width, channel_width_tols, spws, obj_spw_array, obj_spw_id_array, sel_arr, obj_arr, warn_freq_spacing, invert, strict_shapes) ==
    LET absent == \E k \in DOMAIN frequencies :
                      MatchingChannels(obj_freq_array, frequencies[k], freq_tols) = <<>>
        by_chans == frequencies # <<>> \/ freq_chans # <<>>
        chans == AppendMatches(freq_chans, frequencies, Len(frequencies), obj_freq_array, freq_tols)
        freq_inds == Unique(chans)
        has_spw_arrays == obj_spw_array # <<>> /\ obj_spw_id_array # <<>>
        spw_inds1 == IF by_chans /\ has_spw_arrays
                     THEN NonzeroIsIn(obj_spw_array, TakeAt(obj_spw_id_array, freq_inds), invert)
                     ELSE <<>>
        has1 == by_chans /\ has_spw_arrays
        sel1 == IF by_chans THEN <<"frequencies">> ELSE <<>>
        by_spws == spws # <<>>
        of_spws == NonzeroIsIn(obj_spw_array, spws, invert)
        spw_inds2 == IF ~by_spws THEN spw_inds1
                     ELSE IF has1 THEN Intersect1d(of_spws, spw_inds1) ELSE of_spws
        has2 == has1 \/ by_spws
        sel2 == IF by_spws THEN Append(sel1, "spectral windows") ELSE sel1
        by_flex == sel_arr # <<>> /\ obj_arr # <<>>
        flx_inds == NonzeroIsIn(obj_arr, sel_arr, invert)
        spw_inds3 == IF ~by_flex THEN spw_inds2
                     ELSE IF has2 THEN Intersect1d(flx_inds, spw_inds2) ELSE flx_inds
        has3 == has2 \/ by_flex
        sel3 == IF by_flex THEN Append(sel2, "polarizations") ELSE sel2
    IN  IF absent /\ ~invert THEN SelectRaise("ValueError", <<>>)
        ELSE IF by_chans /\ invert /\ Len(freq_inds) = Len(chans)
        THEN SelectRaise("ValueError", sel1)
        ELSE IF by_spws /\ ~invert /\ ~(Range(spws) \subseteq Range(obj_spw_array))
        THEN SelectRaise("ValueError", sel2)
        ELSE IF by_flex /\ ~invert /\ ~(Range(sel_arr) \subseteq Range(obj_arr))
        THEN SelectRaise("ValueError", sel2)
        ELSE IF by_flex /\ Len(spw_inds3) = 0 THEN SelectRaise("ValueError", sel3)
        ELSE SelectFinish(by_chans, freq_inds, has3, spw_inds3, sel3, obj_freq_array,
                          freq_tols, obj_channel_width, channel_width_tols,
                          obj_spw_array, obj_spw_id_array, warn_freq_spacing, strict_shapes)

\* Strictly ascending sequences over a set of integers, of length lo..hi.
AscendingSeqs(S, lo, hi) ==
    {q \in SeqsOf(S, lo, hi) : \A i \in 1..(Len(q) - 1) : q[i] < q[i + 1]}

\* Requests by frequency: present, absent (9), repeated and mixed.
FrequencyRequests == {<<>>, <<1>>, <<9>>, <<1, 2>>, <<1, 1>>, <<2, 9>>}

\* Requests by window id: present, absent (5) and mixed.
SpwRequests == {<<>>, <<0>>, <<1>>, <<5>>, <<0, 1>>, <<0, 5>>}

SelectInit ==
    \E obj_freq_array \in AscendingSeqs(FreqValues, 2, MaxChans) :
    \E obj_spw_array \in {<<>>, <<0>>, <<1, 0>>} :
    \E obj_spw_id_array \in {<<>>} \cup [DOMAIN obj_freq_array -> Range(obj_spw_array)] :
    \E frequencies \in FrequencyRequests :
    \E freq_chans \in SeqsOf(0..(Len(obj_freq_array) - 1), 0, 2) :
    \E spws \in SpwRequests :
    \E with_flex \in BOOLEAN :
    \E freq_tols \in TolChoices :
        /\ (obj_spw_array = <<>>) = (obj_spw_id_array = <<>>)
        /\ Range(obj_spw_id_array) = Range(obj_spw_array)
        /\ obj_spw_array = <<>> => (spws = <<>> /\ ~with_flex)
        /\ with_flex => (frequencies = <<>> /\ Len(freq_chans) <= 1)
        /\ freq = [ pc |-> "select", obj_freq_array |-> obj_freq_array,
                    obj_channel_width |-> [ch \in DOMAIN obj_freq_array |-> 1],
                    obj_spw_array |-> obj_spw_array,
                    obj_spw_id_array |-> obj_spw_id_array,
                    obj_arr |-> IF with_flex
                                THEN [i \in DOMAIN obj_spw_array |-> -4 - i] ELSE <<>>,
                    frequencies |-> frequencies, freq_chans |-> freq_chans,
                    spws |-> spws,
                    sel_arr |-> IF with_flex THEN <<-5>> ELSE <<>>,
                    freq_tols |-> freq_tols, invert |-> FALSE,
                    result |-> SelectRaise(None, <<>>) ]

\* One call of _select_freq_helper.
SelectCall ==
    /\ freq.pc = "select"
    /\ \E invert, strict_shapes \in BOOLEAN :
          freq' = [freq EXCEPT !.pc = "selected", !.invert = invert,
                      !.result = select_freq_helper(freq.frequencies, freq.freq_chans,
                                     freq.obj_freq_array, freq.freq_tols,
                                     freq.obj_channel_width, <<0, 0>>, freq.spws,
                                     freq.obj_spw_array, freq.obj_spw_id_array,
                                     freq.sel_arr, freq.obj_arr, TRUE, invert,
                                     strict_shapes)]
    /\ UNCHANGED <<fr, ant, hist, calr, calw, io>>

SelectNext == SelectCall

InitSelect ==
    /\ SelectInit
    /\ fr = Idle /\ ant = Idle /\ hist = Idle /\ calr = Idle /\ calw = Idle /\ io = Idle

SpecSelect == InitSelect /\ [][SelectNext]_vars

\* The windows of the object are grouped along the frequency axis (or the
\* object has no windows).
ObjectGrouped ==
    \/ freq.obj_spw_array = <<>>
    \/ Contiguous(freq.obj_spw_array, freq.obj_spw_id_array)

\* The call was made with channel indices only, invert false.
ByChannelsOnly ==
    /\ freq.pc = "selected"
    /\ freq.freq_chans # <<>>
    /\ freq.frequencies = <<>> /\ freq.spws = <<>> /\ freq.sel_arr = <<>>
    /\ ~freq.invert

\* The ids of the windows that own a requested channel.
WindowsOfRequest ==
    {freq.obj_spw_id_array[ch + 1] : ch \in Range(freq.freq_chans)}

\* The requested channels are all the channels of the windows they are in.
RequestIsWholeWindows ==
    /\ freq.obj_spw_array # <<>>
    /\ \A ch \in DOMAIN freq.obj_spw_id_array :
          freq.obj_spw_id_array[ch] \in WindowsOfRequest => (ch - 1) \in Range(freq.freq_chans)

\* The same object asked for the windows of the request by their spw ids.
SameByWindows ==
    select_freq_helper(<<>>, <<>>, freq.obj_freq_array, freq.freq_tols,
                       freq.obj_channel_width, <<0, 0>>, SortedSeq(WindowsOfRequest),
                       freq.obj_spw_array, freq.obj_spw_id_array, <<>>, <<>>, TRUE,
                       FALSE, FALSE)

\* C11: called with channel indices only, _select_freq_helper returns
\* exactly the distinct requested channel indices in ascending order (on an
\* object whose windows are grouped it always returns); and when the
\* requested channels are all the channels of one or more windows, the call
\* with those windows' spw ids returns the same channel indices.
C11_ChannelsSelectThemselves ==
    ByChannelsOnly =>
        /\ ObjectGrouped => freq.result.outcome = "return"
        /\ freq.result.outcome = "return" =>
              /\ freq.result.freq_inds = SortedSeq(Range(freq.freq_chans))
              /\ RequestIsWholeWindows =>
                    /\ SameByWindows.outcome = "return"
                    /\ SameByWindows.freq_inds = freq.result.freq_inds

\* The requested channels were the whole of one of two windows.
C11_Witness ==
    /\ ByChannelsOnly
    /\ freq.result.outcome = "return"
    /\ Len(freq.obj_spw_array) = 2
    /\ RequestIsWholeWindows
    /\ Cardinality(WindowsOfRequest) = 1
    /\ Len(freq.result.freq_inds) = 2

\* The channels (from 0) that the request names by index or matches by
\* frequency.
NamedChannels ==
    Range(freq.freq_chans) \cup
    {ch - 1 : ch \in {c \in DOMAIN freq.obj_freq_array :
        \E k \in DOMAIN freq.frequencies :
            IsClose(freq.obj_freq_array[c], freq.frequencies[k],
                    freq.freq_tols[1], freq.freq_tols[2])}}

OtherChannels == {ch - 1 : ch \in DOMAIN freq.obj_freq_array} \ NamedChannels

\* Some requested frequency matches no channel of the object.
SomeFrequencyAbsent ==
    \E k \in DOMAIN freq.frequencies :
        \A c \in DOMAIN freq.obj_freq_array :
            ~IsClose(freq.obj_freq_array[c], freq.frequencies[k],
                     freq.freq_tols[1], freq.freq_tols[2])

\* Some requested spw id is not in the spw_array of the object.
SomeSpwAbsent == \E k \in DOMAIN freq.spws : freq.spws[k] \notin Range(freq.obj_spw_array)

\* The call was made with invert true and with channel indices or
\* frequencies only.
InvertedByChannels ==
    /\ freq.pc = "selected"
    /\ freq.invert
    /\ freq.freq_chans # <<>> \/ freq.frequencies # <<>>
    /\ freq.spws = <<>> /\ freq.sel_arr = <<>>

\* C12: with invert true the indices _select_freq_helper returns are the
\* channels of the object that the request does not name by index and does
\* not match by frequency: none of the named ones and every other one.
C12_InvertExcludesNamed ==
    (InvertedByChannels /\ ObjectGrouped) =>
        /\ OtherChannels # {} => freq.result.outcome = "return"
        /\ freq.result.outcome = "return" =>
              freq.result.freq_inds = SortedSeq(OtherChannels)

\* C13: a requested frequency that matches no channel raises a ValueError
\* when invert is false and is accepted without an error when invert is
\* true; a requested spw id that is not in spw_array raises a ValueError
\* when invert is false and is accepted when invert is true.
C13_AbsentRaisesUnlessInverted ==
    (freq.pc = "selected" /\ ObjectGrouped /\ freq.sel_arr = <<>>) =>
        /\ (~freq.invert /\ SomeFrequencyAbsent) => freq.result.outcome = "ValueError"
        /\ (~freq.invert /\ SomeSpwAbsent) => freq.result.outcome = "ValueError"
        /\ (freq.invert /\ SomeFrequencyAbsent /\ freq.freq_chans = <<>>
                /\ freq.spws = <<>> /\ OtherChannels # {}) =>
              freq.result.outcome = "return"
        /\ (freq.invert /\ SomeSpwAbsent /\ freq.freq_chans = <<>>
                /\ freq.frequencies = <<>>
                /\ ~(Range(freq.obj_spw_array) \subseteq Range(freq.spws))) =>
              freq.result.outcome = "return"

\* The same without the inverted request by frequency.
C13_AbsentRaisesUnlessInvertedSpw ==
    (freq.pc = "selected" /\ ObjectGrouped /\ freq.sel_arr = <<>>) =>
        /\ (~freq.invert /\ SomeFrequencyAbsent) => freq.result.outcome = "ValueError"
        /\ (~freq.invert /\ SomeSpwAbsent) => freq.result.outcome = "ValueError"
        /\ (freq.invert /\ SomeSpwAbsent /\ freq.freq_chans = <<>>
                /\ freq.frequencies = <<>>
                /\ ~(Range(freq.obj_spw_array) \subseteq Range(freq.spws))) =>
              freq.result.outcome = "return"

\* C26: whenever _select_freq_helper (invert false) returns a channel-index
\* list and a window-index list for a request that combines frequencies,
\* channel indices, spw ids and a polarization or Jones filter, every
\* returned channel belongs to a returned window, every returned window
\* owns a returned channel, and both lists are ascending without
\* duplicates; a selection that leaves nothing raises a ValueError and
\* returns no empty list.
C26_SelectionConsistent ==
    (freq.pc = "selected" /\ ~freq.invert /\ freq.result.outcome = "return") =>
        LET freq_inds == freq.result.freq_inds
            spw_inds == freq.result.spw_inds
            windows == {freq.obj_spw_array[spw_inds[j] + 1] : j \in DOMAIN spw_inds}
        IN  /\ \A i \in 1..(Len(freq_inds) - 1) : freq_inds[i] < freq_inds[i + 1]
            /\ \A j \in 1..(Len(spw_inds) - 1) : spw_inds[j] < spw_inds[j + 1]
            /\ Range(freq_inds) \subseteq 0..(Len(freq.obj_freq_array) - 1)
            /\ Range(spw_inds) \subseteq 0..(Len(freq.obj_spw_array) - 1)
            /\ (freq_inds # <<>> /\ spw_inds # <<>>) =>
                  /\ \A i \in DOMAIN freq_inds :
                        freq.obj_spw_id_array[freq_inds[i] + 1] \in windows
                  /\ \A j \in DOMAIN spw_inds :
                        \E i \in DOMAIN freq_inds :
                            freq.obj_spw_id_array[freq_inds[i] + 1]
                                = freq.obj_spw_array[spw_inds[j] + 1]
            /\ freq.result.selections # <<>> =>
                  /\ freq_inds # <<>>
                  /\ freq.obj_spw_array # <<>> => spw_inds # <<>>

\* A request by channel, by window and by polarization has returned one
\* window and its channel out of two windows.
C26_Witness ==
    /\ freq.pc = "selected" /\ ~freq.invert
    /\ freq.freq_chans # <<>> /\ freq.spws # <<>> /\ freq.sel_arr # <<>>
    /\ Len(freq.obj_spw_array) = 2
    /\ freq.result.outcome = "return"
    /\ Len(freq.result.spw_inds) = 1 /\ freq.result.freq_inds # <<>>

\* A request by frequency and by window has narrowed the channels asked
\* for to those of the window asked for.
C26_WitnessNarrowed ==
    /\ freq.pc = "selected" /\ ~freq.invert
    /\ freq.freq_chans = <<>> /\ Len(freq.frequencies) = 2 /\ Len(freq.spws) = 1
    /\ freq.result.outcome = "return"
    /\ Len(freq.result.freq_inds) = 1 /\ Len(freq.result.spw_inds) = 1

(***************************************************************************)
(* utils/frequency.py: _sort_freq_helper.                                  *)
(*                                                                         *)
(* An argument that may be None, a string, an int or an index array is a   *)
(* record that says which it is.  Index arrays hold indices counted from   *)
(* 0.  The index array returned is the empty sequence when the function    *)
(* returns None.                                                           *)
(***************************************************************************)
NoneArg == [kind |-> "None", str |-> "", arr |-> <<>>]

StrArg(text) == [kind |-> "str", str |-> text, arr |-> <<>>]

ArrArg(a) == [kind |-> "array", str |-> "", arr |-> a]

IntArg(n) == [kind |-> "int", str |-> "", arr |-> <<n>>]

\* np.argsort(x): the positions (from 0) of the entries of x in ascending
\* order of value, equal values in the order they stand in.
Argsort(x) ==
    LET before(p) == Cardinality({q \in DOMAIN x : x[q] < x[p] \/ (x[q] = x[p] /\ q < p)})
    IN  [r \in DOMAIN x |-> (CHOOSE p \in DOMAIN x : before(p) = r - 1) - 1]

\* np.sort(x)
Sort(x) == TakeAt(x, Argsort(x))

\* A slip in the descending orders: nothing is turned round.
FlipKeepsOrder(x) == x

\* np.flip(x)
Flip(x) == [i \in DOMAIN x |-> x[Len(x) + 1 - i]]

\* Twice np.median(x), which keeps the median of an even number of values
\* an integer.
TwiceMedian(x) ==
    LET sorted == Sort(x)
        n == Len(x)
    IN  IF n % 2 = 1 THEN 2 * sorted[(n + 1) \div 2]
        ELSE sorted[n \div 2] + sorted[(n \div 2) + 1]

\* A slip in the validation: only the length is looked at.
IsRightLength(order, n) == Len(order) = n

\* size == n and np.all(np.sort(order) == np.arange(n))
IsFullIndexArray(order, n) == Len(order) = n /\ Sort(order) = Arange(n)

\* The positions (from 1, ascending) at which temp_spws holds idx.
MaskPositions(temp_spws, idx) == SortedSeq({p \in DOMAIN temp_spws : temp_spws[p] = idx})

RECURSIVE Concatenate(_)
Concatenate(parts) == IF parts = <<>> THEN <<>> ELSE Head(parts) \o Concatenate(Tail(parts))

\* The order of the windows that a string spw_order asks for, as indices
\* into spw_array.
SpwOrderOf(text, spw_array, temp_freqs, temp_spws) ==
    LET medians == [i \in DOMAIN spw_array |->
                       TwiceMedian(Take(temp_freqs, MaskPositions(temp_spws, spw_array[i])))]
        order == IF text \in {"number", "-number"} THEN Argsort(spw_array)
                 ELSE Argsort(medians)
    IN  IF Len(spw_array) <= 1 THEN Arange(Len(spw_array))
        ELSE IF text \in {"-number", "-freq"} THEN Flip(order) ELSE order

\* index_array after the first sort: the channels of the windows, window
\* by window in the order spw_array[spw_order].
SortWindows(index_array, temp_spws, spw_array, spw_order) ==
    Concatenate([k \in DOMAIN spw_order |->
        Take(index_array, MaskPositions(temp_spws, spw_array[spw_order[k] + 1]))])

\* index_array after the passes of the loop over the first k windows of
\* spw_array: the entries at the positions of a window that is to be
\* sorted are put in the order of their frequencies.
RECURSIVE SortChannels(_, _, _, _, _, _, _)
SortChannels(index_array, temp_freqs, temp_spws, spw_array, sort_spw, descending, k) ==
    IF k = 0 THEN index_array
    ELSE LET done == SortChannels(index_array, temp_freqs, temp_spws, spw_array,
                                  sort_spw, descending, k - 1)
             mask == MaskPositions(temp_spws, spw_array[k])
             by_freq == TakeAt(Take(done, mask), Argsort(Take(temp_freqs, mask)))
             subsort_order == IF descending THEN Flip(by_freq) ELSE by_freq
         IN  IF ~sort_spw[k] THEN done
             ELSE [p \in DOMAIN done |->
                      IF \E n \in DOMAIN mask : mask[n] = p
                      THEN subsort_order[CHOOSE n \in DOMAIN mask : mask[n] = p]
                      ELSE done[p]]

\* np.all(index_array[1:] > index_array[:-1])
StrictlyAscending(index_array) ==
    \A i \in 1..(Len(index_array) - 1) : index_array[i + 1] > index_array[i]

SortResult(outcome, index_array, warned) ==
    [outcome |-> outcome, index_array |-> index_array, warned |-> warned]

\* A slip at the end: the order is returned even when it changes nothing.
SortReturnAlways(index_array, warned) == SortResult("return", index_array, warned)

\* The end of _sort_freq_helper (lines 313-317).
SortReturn(index_array, warned) ==
    IF StrictlyAscending(index_array) THEN SortResult("return", <<>>, warned)
    ELSE SortResult("return", index_array, warned)

\* The branch of _sort_freq_helper for a channel_order that is None or a
\* string (lines 233-312).
SortByCriteria(freq_array, spw_array, flex_spw_id_array, spw_order, channel_order, select_spw) ==
    LET Nfreqs == Len(freq_array)
        Nspws == Len(spw_array)
        selecting == select_spw.kind # "None"
        by_windows == ~selecting /\ spw_order.kind # "None"
        warned == IF selecting /\ spw_order.kind # "None"
                  THEN {"spw_order ignored"} ELSE {}
        sort_spw == [k \in DOMAIN spw_array |->
                        IF ~selecting THEN channel_order.kind # "None"
                        ELSE spw_array[k] \in Range(select_spw.arr)]
        order == IF spw_order.kind = "array" THEN spw_order.arr
                 ELSE SpwOrderOf(spw_order.str, spw_array, freq_array, flex_spw_id_array)
        index_array == IF by_windows
                       THEN SortWindows(Arange(Nfreqs), flex_spw_id_array, spw_array, order)
                       ELSE Arange(Nfreqs)
        temp_freqs == TakeAt(freq_array, index_array)
        temp_spws == TakeAt(flex_spw_id_array, index_array)
    IN  IF selecting /\ channel_order.kind = "None"
        THEN SortResult("return", <<>>, warned \cup {"no sorting actions"})
        ELSE IF by_windows /\ spw_order.kind = "array" /\ ~IsFullIndexArray(spw_order.arr, Nspws)
        THEN SortResult("ValueError", <<>>, warned)
        ELSE IF by_windows /\ spw_order.kind = "str"
                /\ spw_order.str \notin {"number", "freq", "-number", "-freq"}
        THEN SortResult("ValueError", <<>>, warned)
        ELSE IF channel_order.kind = "None" THEN SortReturn(index_array, warned)
        ELSE IF channel_order.str \notin {"freq", "-freq"}
        THEN SortResult("ValueError", <<>>, warned)
        ELSE SortReturn(SortChannels(index_array, temp_freqs, temp_spws, spw_array,
                                     sort_spw, channel_order.str = "-freq", Nspws),
                        warned)

\* _sort_freq_helper: the index array it returns (empty for None), or the
\* exception it raises, and the warnings it gives.
sort_freq_helper(freq_array, spw_array, flex_spw_id_array, spw_order, channel_order, select_spw) ==
    IF spw_order.kind = "None" /\ channel_order.kind = "None"
    THEN SortResult("return", <<>>, {"no sorting actions"})
    ELSE IF channel_order.kind = "array"
    THEN LET warned ==
                 (IF select_spw.kind # "None" THEN {"select_spw ignored"} ELSE {})
                 \cup (IF spw_order.kind # "None" THEN {"spw_order ignored"} ELSE {})
         IN  IF ~IsFullIndexArray(channel_order.arr, Len(freq_array))
             THEN SortResult("ValueError", <<>>, warned)
             ELSE SortReturn(channel_order.arr, warned)
    ELSE SortByCriteria(freq_array, spw_array, flex_spw_id_array, spw_order,
                        channel_order, select_spw)

SpwOrderStrings == {"number", "-number", "freq", "-freq", "bogus"}

ChannelOrderStrings == {"freq", "-freq", "bogus"}

\* select_spw: None, a window id, an absent id (5), or a list of ids.
SelectSpwChoices == {NoneArg, IntArg(0), IntArg(5), ArrArg(<<1>>), ArrArg(<<0, 5>>)}

SortInit ==
    \E freq_array \in DistinctSeqs(FreqValues, 1, MaxChans) :
    \E spw_array \in {<<0>>, <<1, 0>>, <<0, 1>>} :
    \E flex_spw_id_array \in [DOMAIN freq_array -> Range(spw_array)] :
    \E spw_order \in {NoneArg} \cup {StrArg(t) : t \in SpwOrderStrings}
                     \cup {ArrArg(a) : a \in SeqsOf(0..(Len(spw_array) - 1), 1, Len(spw_array))} :
    \E channel_order \in {NoneArg} \cup {StrArg(t) : t \in ChannelOrderStrings}
                     \cup {ArrArg(a) : a \in SeqsOf(0..(Len(freq_array) - 1), 1, Len(freq_array))} :
    \E select_spw \in SelectSpwChoices :
        /\ Range(flex_spw_id_array) = Range(spw_array)
        /\ channel_order.kind = "array" =>
              /\ StrictlyAscending(freq_array)
              /\ Contiguous(spw_array, flex_spw_id_array)
              /\ spw_order.kind # "str" \/ spw_order.str \in {"number", "bogus"}
              /\ select_spw \in {NoneArg, ArrArg(<<0, 5>>)}
        /\ freq = [ pc |-> "sort", freq_array |-> freq_array, spw_array |-> spw_array,
                    flex_spw_id_array |-> flex_spw_id_array, spw_order |-> spw_order,
                    channel_order |-> channel_order, select_spw |-> select_spw,
                    result |-> SortResult(None, <<>>, {}) ]

\* One call of _sort_freq_helper.
SortCall ==
    /\ freq.pc = "sort"
    /\ freq' = [freq EXCEPT !.pc = "sorted",
                    !.result = sort_freq_helper(freq.freq_array, freq.spw_array,
                                   freq.flex_spw_id_array, freq.spw_order,
                                   freq.channel_order, freq.select_spw)]
    /\ UNCHANGED <<fr, ant, hist, calr, calw, io>>

SortNext == SortCall

InitSort ==
    /\ SortInit
    /\ fr = Idle /\ ant = Idle /\ hist = Idle /\ calr = Idle /\ calw = Idle /\ io = Idle

SpecSort == InitSort /\ [][SortNext]_vars

\* The position (from 1) of window id w in spw_array.
WinPos(w) == CHOOSE i \in DOMAIN freq.spw_array : freq.spw_array[i] = w

\* Twice the median frequency of window w.
WinMedian(w) ==
    TwiceMedian(Take(freq.freq_array, MaskPositions(freq.flex_spw_id_array, w)))

\* Window w1 comes before window w2 in the order spw_order asks for.
WindowBefore(w1, w2) ==
    CASE freq.spw_order.kind = "array" ->
            \E i, j \in DOMAIN freq.spw_order.arr :
                /\ i < j
                /\ freq.spw_order.arr[i] = WinPos(w1) - 1
                /\ freq.spw_order.arr[j] = WinPos(w2) - 1
      [] freq.spw_order.str = "number" -> w1 < w2
      [] freq.spw_order.str = "-number" -> w1 > w2
      [] freq.spw_order.str = "freq" ->
            \/ WinMedian(w1) < WinMedian(w2)
            \/ WinMedian(w1) = WinMedian(w2) /\ WinPos(w1) < WinPos(w2)
      [] OTHER ->
            \/ WinMedian(w1) > WinMedian(w2)
            \/ WinMedian(w1) = WinMedian(w2) /\ WinPos(w1) > WinPos(w2)

\* The windows stand along the axis in the order spw_order asks for.
WindowsInOrder ==
    \A p, q \in DOMAIN freq.flex_spw_id_array :
        (p < q /\ freq.flex_spw_id_array[p] # freq.flex_spw_id_array[q]) =>
            WindowBefore(freq.flex_spw_id_array[p], freq.flex_spw_id_array[q])

\* Window w is one whose channels are to be sorted.
WindowIsSorted(w) ==
    freq.select_spw.kind = "None" \/ w \in Range(freq.select_spw.arr)

\* The channels of every window that is to be sorted stand in the order
\* channel_order asks for.
ChannelsInOrder ==
    \A p, q \in DOMAIN freq.freq_array :
        (/\ p < q
         /\ freq.flex_spw_id_array[p] = freq.flex_spw_id_array[q]
         /\ WindowIsSorted(freq.flex_spw_id_array[p])) =>
            IF freq.channel_order.str = "-freq"
            THEN freq.freq_array[p] > freq.freq_array[q]
            ELSE freq.freq_array[p] < freq.freq_array[q]

NoCriteria == freq.spw_order.kind = "None" /\ freq.channel_order.kind = "None"

\* The axis is already in the order the arguments ask for.
AlreadySorted ==
    IF freq.channel_order.kind = "array"
    THEN freq.channel_order.arr = Arange(Len(freq.freq_array))
    ELSE /\ (freq.select_spw.kind = "None" /\ freq.spw_order.kind # "None") => WindowsInOrder
         /\ freq.channel_order.kind # "None" => ChannelsInOrder

\* C14: _sort_freq_helper returns None, with a warning, when neither
\* spw_order nor channel_order is given; when it does not raise it returns
\* None exactly when no criteria are given or the axis is already in the
\* order asked for, and an index array in every other case.
C14_NoneWhenNothingToSort ==
    freq.pc = "sorted" =>
        /\ NoCriteria =>
              /\ freq.result.outcome = "return"
              /\ freq.result.index_array = <<>>
              /\ "no sorting actions" \in freq.result.warned
        /\ freq.result.outcome = "return" =>
              (freq.result.index_array = <<>> <=> (NoCriteria \/ AlreadySorted))

\* Two windows were asked for in descending number order and stood in it
\* already, with unsorted channels left alone: None was returned.
C14_Witness ==
    /\ freq.pc = "sorted"
    /\ freq.result.outcome = "return"
    /\ freq.result.index_array = <<>>
    /\ freq.spw_order = StrArg("-number")
    /\ freq.channel_order.kind = "None"
    /\ freq.flex_spw_id_array = <<1, 1, 0>>

\* An index array that moves channels was returned.
C14_WitnessReordered ==
    /\ freq.pc = "sorted"
    /\ freq.result.outcome = "return"
    /\ freq.result.index_array = <<2, 0, 1>>
    /\ freq.channel_order = StrArg("freq")

\* order holds every index of 0..n-1 exactly once.
IsPermutation(order, n) ==
    /\ Len(order) = n
    /\ \A v \in 0..(n - 1) : Cardinality({i \in DOMAIN order : order[i] = v}) = 1

SelectSpwAbsent ==
    /\ freq.select_spw.kind # "None"
    /\ ~(Range(freq.select_spw.arr) \subseteq Range(freq.spw_array))

\* C16: _sort_freq_helper raises a ValueError when select_spw, in a call
\* that uses it (channel_order is 'freq' or '-freq'), holds a value that is
\* not in spw_array.
C16_AbsentSelectSpwRaises ==
    (freq.pc = "sorted" /\ SelectSpwAbsent /\ freq.channel_order.str \in {"freq", "-freq"}) =>
        freq.result.outcome = "ValueError"

(***************************************************************************)
(* Calibration table reader: the frequency axis and the main loop          *)
(* (uvcal/ms_cal.py).                                                      *)
(*                                                                         *)
(* spw_info is the record read_ms_spw returns: per row of the              *)
(* SPECTRAL_WINDOW table (row_idx counted from 0) the window id, the       *)
(* number of channels and the channel frequencies.  A slice is the pair    *)
(* <<start, stop>> of slice(start, stop); channel c (from 0) is entry      *)
(* c + 1 of an array over the frequency axis.  The solution arrays are     *)
(* functions of <<antenna index, channel, time index>>, all from 0; Njones *)
(* is 1.  A cell of CPARAM, PARAMERR or FLAG is the sequence of its        *)
(* channels.                                                               *)
(***************************************************************************)

\* np.cumsum(num_chan)[k - 1]
CumSum(num_chan, k) == SumSeq(SubSeq(num_chan, 1, k))

\* A slip in the slice: every window is taken to be as wide as this one.
SpwSliceEqualWidths(num_chan, k) == <<(k - 1) * num_chan[k], k * num_chan[k]>>

\* slice(spw_end_chan - spw_nchan, spw_end_chan) of the window in row k - 1.
SpwSlice(num_chan, k) == <<CumSum(num_chan, k) - num_chan[k], CumSum(num_chan, k)>>

\* x[slice] = value on an array x over the frequency axis: the entries of
\* the slice that lie inside the array take the entries of value, a value
\* of one entry being broadcast; the new array, or <<>> when the shapes do
\* not fit (ValueError).  An array has at least one entry.
SetSlice(x, slice, value) ==
    LET lo == IF slice[1] < Len(x) THEN slice[1] ELSE Len(x)
        hi == IF slice[2] < Len(x) THEN slice[2] ELSE Len(x)
        n  == IF hi > lo THEN hi - lo ELSE 0
    IN  IF Len(value) # n /\ Len(value) # 1 THEN <<>>
        ELSE [c \in DOMAIN x |->
                 IF lo < c /\ c <= hi
                 THEN (IF Len(value) = 1 THEN value[1] ELSE value[c - lo])
                 ELSE x[c]]

\* The loop over the windows from row k - 1 on, on the state st of the
\* arrays it fills.
RECURSIVE AxisLoop(_, _, _)
AxisLoop(spw_info, k, st) ==
    IF k > Len(spw_info.assoc_spw_id) \/ st.outcome # "return" THEN st
    ELSE LET spw_slice == SpwSlice(spw_info.num_chan, k)
             freqs == SetSlice(st.freq_array, spw_slice, spw_info.chan_freq[k])
         IN  IF freqs = <<>> THEN [st EXCEPT !.outcome = "ValueError"]
             ELSE AxisLoop(spw_info, k + 1,
                     [st EXCEPT !.spw_slice_dict = Append(@, <<k - 1, spw_slice>>),
                                !.freq_array = freqs,
                                !.flex_spw_id_array =
                                    SetSlice(@, spw_slice, <<spw_info.assoc_spw_id[k]>>)])

\* The frequency axis read_ms_cal builds from spw_info: spw_array, Nspws,
\* Nfreqs, freq_array, flex_spw_id_array and spw_slice_dict (a dict in
\* insertion order: <<row_idx, slice>> pairs).
FreqAxis(spw_info) ==
    LET Nfreqs == SumSeq(spw_info.num_chan)
    IN  AxisLoop(spw_info, 1,
            [ outcome |-> "return", spw_array |-> spw_info.assoc_spw_id,
              Nspws |-> Len(spw_info.assoc_spw_id), Nfreqs |-> Nfreqs,
              freq_array |-> [c \in 1..Nfreqs |-> 0],
              flex_spw_id_array |-> [c \in 1..Nfreqs |-> 0],
              spw_slice_dict |-> <<>> ])

\* The loop over tb_main.getcol("TIME") from row k on.
RECURSIVE TimeIndexLoop(_, _, _, _, _)
TimeIndexLoop(times, k, st, rtol_num, atol) ==
    IF k > Len(times) THEN st
    ELSE LET r == DedupTime(st.time_dict, st.time_count, times[k], rtol_num, atol)
         IN  TimeIndexLoop(times, k + 1,
                 [ time_dict |-> r.time_dict, time_count |-> r.time_count,
                   row_timeidx_map |-> Append(st.row_timeidx_map, r.idx) ],
                 rtol_num, atol)

\* The arrays the main loop fills, as they are made before it.
BlankArrays(Nants_data, Nfreqs, Ntimes) ==
    LET cells == (0..(Nants_data - 1)) \X (0..(Nfreqs - 1)) \X (0..(Ntimes - 1))
    IN  [ ms_cal_soln |-> [x \in cells |-> 0],
          quality_array |-> [x \in cells |-> 0],
          flag_array |-> [x \in cells |-> TRUE],
          time_array |-> [t \in 1..Ntimes |-> 0],
          integration_time |-> [t \in 1..Ntimes |-> 0],
          phase_center_id_array |-> [t \in 1..Ntimes |-> 0],
          scan_number_array |-> [t \in 1..Ntimes |-> 0] ]

\* ant_dict = {ant: idx for idx, ant in enumerate(antenna_numbers)}: the
\* index of a number, -1 on a KeyError.
AntDict(antenna_numbers, num) ==
    LET hits == {i \in DOMAIN antenna_numbers : antenna_numbers[i] = num}
    IN  IF hits = {} THEN -1 ELSE (CHOOSE i \in hits : \A j \in hits : j <= i) - 1

\* arr[ant_idx, spw_slice, time_idx, :] = cell
SetCells(arr, ant_idx, spw_slice, time_idx, cell) ==
    [x \in DOMAIN arr |->
        IF x[1] = ant_idx /\ spw_slice[1] <= x[2] /\ x[2] < spw_slice[2] /\ x[3] = time_idx
        THEN (IF Len(cell) = 1 THEN cell[1] ELSE cell[x[2] - spw_slice[1] + 1])
        ELSE arr[x]]

\* A slip in the order of the pass: the per-time values are stored before
\* the window is looked up.
ScatterRowTimesFirst(arrays, tb_main, row_idx, time_idx, antenna_numbers, spw_slice_dict, Ntimes) ==
    LET r == row_idx + 1
        ant_idx == AntDict(antenna_numbers, tb_main.ANTENNA1[r])
        spw_id == tb_main.SPECTRAL_WINDOW_ID[r]
        stored == IF time_idx < Ntimes
                  THEN [arrays EXCEPT !.time_array[time_idx + 1] = tb_main.TIME[r],
                                      !.integration_time[time_idx + 1] = tb_main.INTERVAL[r]]
                  ELSE arrays
    IN  IF ant_idx = -1 THEN [outcome |-> "skip", arrays |-> arrays]
        ELSE IF ~DictHas(spw_slice_dict, spw_id) THEN [outcome |-> "skip", arrays |-> stored]
        ELSE IF time_idx >= Ntimes THEN [outcome |-> "IndexError", arrays |-> arrays]
        ELSE LET spw_slice == DictGet(spw_slice_dict, spw_id)
             IN  [ outcome |-> "stored",
                   arrays |-> [stored EXCEPT
                      !.ms_cal_soln = SetCells(@, ant_idx, spw_slice, time_idx, tb_main.CPARAM[r]),
                      !.quality_array = SetCells(@, ant_idx, spw_slice, time_idx, tb_main.PARAMERR[r]),
                      !.flag_array = SetCells(@, ant_idx, spw_slice, time_idx, tb_main.FLAG[r]),
                      !.phase_center_id_array[time_idx + 1] = tb_main.FIELD_ID[r],
                      !.scan_number_array[time_idx + 1] = tb_main.SCAN_NUMBER[r]] ]

\* One pass of the main loop, for row row_idx (from 0) with time index
\* time_idx: the arrays after it and how it ended: "stored", "skip" (a
\* KeyError, caught), or the exception that leaves the loop.
ScatterRow(arrays, tb_main, row_idx, time_idx, antenna_numbers, spw_slice_dict, Ntimes) ==
    LET r == row_idx + 1
        ant_idx == AntDict(antenna_numbers, tb_main.ANTENNA1[r])
        spw_id == tb_main.SPECTRAL_WINDOW_ID[r]
    IN  IF ant_idx = -1 THEN [outcome |-> "skip", arrays |-> arrays]
        ELSE IF ~DictHas(spw_slice_dict, spw_id) THEN [outcome |-> "skip", arrays |-> arrays]
        ELSE IF time_idx >= Ntimes THEN [outcome |-> "IndexError", arrays |-> arrays]
        ELSE LET spw_slice == DictGet(spw_slice_dict, spw_id)
                 nchan == spw_slice[2] - spw_slice[1]
             IN  IF Len(tb_main.CPARAM[r]) \notin {1, nchan}
                 THEN [outcome |-> "ValueError", arrays |-> arrays]
                 ELSE [ outcome |-> "stored",
                        arrays |-> [arrays EXCEPT
                           !.ms_cal_soln = SetCells(@, ant_idx, spw_slice, time_idx, tb_main.CPARAM[r]),
                           !.time_array[time_idx + 1] = tb_main.TIME[r],
                           !.integration_time[time_idx + 1] = tb_main.INTERVAL[r],
                           !.quality_array = SetCells(@, ant_idx, spw_slice, time_idx, tb_main.PARAMERR[r]),
                           !.flag_array = SetCells(@, ant_idx, spw_slice, time_idx, tb_main.FLAG[r]),
                           !.phase_center_id_array[time_idx + 1] = tb_main.FIELD_ID[r],
                           !.scan_number_array[time_idx + 1] = tb_main.SCAN_NUMBER[r]] ]


\* The record read_ms_spw returns for windows with the given ids and
\* numbers of channels.
SpwInfoOf(ids, num_chan) ==
    [ assoc_spw_id |-> ids, num_chan |-> num_chan,
      chan_freq |-> [k \in DOMAIN ids |-> [n \in 1..num_chan[k] |-> 10 * k + n]] ]

SpwInfos ==
    { SpwInfoOf(<<0>>, <<1>>), SpwInfoOf(<<0>>, <<2>>), SpwInfoOf(<<0, 1>>, <<1, 2>>),
      SpwInfoOf(<<1, 0>>, <<2, 1>>), SpwInfoOf(<<0, 1, 2>>, <<1, 2, 1>>) }

\* What a row of the main table says of itself: antenna, window and time.
MainRowKeys == [ANTENNA1 : {0, 1, 2}, SPECTRAL_WINDOW_ID : {0, 1, 2}, TIME : {0, 1, 3}]

\* The main table of the given rows: a cell of a row has the channels of
\* the row's window (one channel when the window is not in the table of
\* windows), and every value names the row and channel it stands in.
MainTableOf(keys, spw_info) ==
    LET width(r) == IF keys[r].SPECTRAL_WINDOW_ID < Len(spw_info.num_chan)
                    THEN spw_info.num_chan[keys[r].SPECTRAL_WINDOW_ID + 1] ELSE 1
    IN  [ TIME |-> [r \in DOMAIN keys |-> keys[r].TIME],
          ANTENNA1 |-> [r \in DOMAIN keys |-> keys[r].ANTENNA1],
          SPECTRAL_WINDOW_ID |-> [r \in DOMAIN keys |-> keys[r].SPECTRAL_WINDOW_ID],
          FIELD_ID |-> [r \in DOMAIN keys |-> r - 1],
          SCAN_NUMBER |-> [r \in DOMAIN keys |-> r],
          INTERVAL |-> [r \in DOMAIN keys |-> 10 * r],
          CPARAM |-> [r \in DOMAIN keys |-> [n \in 1..width(r) |-> <<"gain", r, n>>]],
          PARAMERR |-> [r \in DOMAIN keys |-> [n \in 1..width(r) |-> <<"err", r, n>>]],
          FLAG |-> [r \in DOMAIN keys |-> [n \in 1..width(r) |-> FALSE]] ]

\* The state of a read before the frequency axis is built.
ReadStart(antenna_numbers, spw_info, tb_main, rtol_num, atol) ==
    [ pc |-> "axis", outcome |-> None,
      antenna_numbers |-> antenna_numbers, spw_info |-> spw_info, tb_main |-> tb_main,
      rtol_num |-> rtol_num, atol |-> atol,
      axis |-> None, row_timeidx_map |-> <<>>, Ntimes |-> -1,
      arrays |-> None, before |-> None, last |-> None, row |-> 0 ]

CrInit ==
    \E antenna_numbers \in {<<0>>, <<1>>, <<0, 2>>} :
    \E spw_info \in SpwInfos :
    \E keys \in SeqsOf(MainRowKeys, 1, 2) :
    \E atol \in {0, 1} :
        calr = ReadStart(antenna_numbers, spw_info, MainTableOf(keys, spw_info), 0, atol)

\* The frequency axis is built from the table of windows.
CrAxis ==
    /\ calr.pc = "axis"
    /\ LET axis == FreqAxis(calr.spw_info)
       IN  calr' = IF axis.outcome = "return"
                   THEN [calr EXCEPT !.pc = "times", !.axis = axis]
                   ELSE [calr EXCEPT !.pc = "raised", !.axis = axis,
                                     !.outcome = axis.outcome]
    /\ UNCHANGED <<fr, ant, hist, freq, calw, io>>

\* The time index of every row is found and the arrays are made.
CrTimes ==
    /\ calr.pc = "times"
    /\ LET st == TimeIndexLoop(calr.tb_main.TIME, 1,
                     [time_dict |-> <<>>, time_count |-> 0, row_timeidx_map |-> <<>>],
                     calr.rtol_num, calr.atol)
       IN  calr' = [calr EXCEPT !.pc = "rows",
                       !.row_timeidx_map = st.row_timeidx_map,
                       !.Ntimes = st.time_count,
                       !.arrays = BlankArrays(Len(calr.antenna_numbers),
                                              calr.axis.Nfreqs, st.time_count)]
    /\ UNCHANGED <<fr, ant, hist, freq, calw, io>>

\* One pass of the main loop.
CrRow ==
    /\ calr.pc = "rows"
    /\ calr.row < Len(calr.tb_main.TIME)
    /\ LET r == ScatterRow(calr.arrays, calr.tb_main, calr.row,
                           calr.row_timeidx_map[calr.row + 1], calr.antenna_numbers,
                           calr.axis.spw_slice_dict, calr.Ntimes)
       IN  calr' = IF r.outcome \in {"stored", "skip"}
                   THEN [calr EXCEPT !.row = @ + 1, !.before = calr.arrays,
                                     !.arrays = r.arrays, !.last = r.outcome]
                   ELSE [calr EXCEPT !.pc = "raised", !.outcome = r.outcome]
    /\ UNCHANGED <<fr, ant, hist, freq, calw, io>>

\* The main loop has passed every row.
CrDone ==
    /\ calr.pc = "rows"
    /\ calr.row = Len(calr.tb_main.TIME)
    /\ calr' = [calr EXCEPT !.pc = "done", !.outcome = "return"]
    /\ UNCHANGED <<fr, ant, hist, freq, calw, io>>

CrNext == CrAxis \/ CrTimes \/ CrRow \/ CrDone

InitCalRows ==
    /\ CrInit
    /\ fr = Idle /\ ant = Idle /\ hist = Idle /\ calw = Idle /\ freq = Idle /\ io = Idle

SpecCalRows == InitCalRows /\ [][CrNext]_vars

\* Row r (from 1) of the main table names an antenna that is not in the
\* antenna lookup or a window that is not in the window lookup.
RowUnknown(r) ==
    \/ calr.tb_main.ANTENNA1[r] \notin Range(calr.antenna_numbers)
    \/ calr.tb_main.SPECTRAL_WINDOW_ID[r] \notin 0..(Len(calr.spw_info.num_chan) - 1)

\* C24: in read_ms_cal a main-table row whose antenna is not in the antenna
\* lookup, or whose window is not in the window lookup, is skipped without
\* raising, and the gain, quality, flag, time, integration-time, field-id
\* and scan-number arrays are after it exactly as they were before it.
C24_UnknownRowSkipped ==
    /\ (calr.pc \in {"rows", "done"} /\ calr.row > 0 /\ RowUnknown(calr.row)) =>
          /\ calr.last = "skip"
          /\ calr.arrays = calr.before
    /\ (calr.pc = "raised" /\ calr.axis.outcome = "return") => ~RowUnknown(calr.row + 1)

\* A row of an unknown antenna was passed over after a row that stored
\* its values.
C24_Witness ==
    /\ calr.pc = "rows" /\ calr.row = 2
    /\ calr.tb_main.ANTENNA1[2] \notin Range(calr.antenna_numbers)
    /\ calr.last = "skip"
    /\ calr.arrays # BlankArrays(Len(calr.antenna_numbers), calr.axis.Nfreqs, calr.Ntimes)

\* A row of an unknown window was passed over.
C24_WitnessWindow ==
    /\ calr.pc = "rows" /\ calr.row > 0
    /\ calr.tb_main.ANTENNA1[calr.row] \in Range(calr.antenna_numbers)
    /\ calr.tb_main.SPECTRAL_WINDOW_ID[calr.row] >= Len(calr.spw_info.num_chan)
    /\ calr.last = "skip"

\* C27: in read_ms_cal the flat frequency axis is the windows' channel
\* arrays one after the other in table row order: the slices recorded per
\* window are contiguous, pairwise disjoint, in window order, and cover
\* exactly 0..Nfreqs-1, and every channel of a window's slice carries that
\* window's id in flex_spw_id_array (and its frequency in freq_array).
C27_WindowsPartitionAxis ==
    calr.pc \in {"times", "rows", "done"} =>
        LET axis == calr.axis
            info == calr.spw_info
            d == axis.spw_slice_dict
        IN  /\ axis.outcome = "return"
            /\ Len(d) = Len(info.num_chan)
            /\ axis.Nfreqs = SumSeq(info.num_chan)
            /\ Len(axis.freq_array) = axis.Nfreqs
            /\ \A k \in DOMAIN d :
                  /\ d[k][1] = k - 1
                  /\ d[k][2][1] = (IF k = 1 THEN 0 ELSE d[k - 1][2][2])
                  /\ d[k][2][2] - d[k][2][1] = info.num_chan[k]
                  /\ \A c \in d[k][2][1]..(d[k][2][2] - 1) :
                        /\ axis.flex_spw_id_array[c + 1] = info.assoc_spw_id[k]
                        /\ axis.freq_array[c + 1] = info.chan_freq[k][c - d[k][2][1] + 1]
            /\ d[Len(d)][2][2] = axis.Nfreqs
            /\ \A c \in 0..(axis.Nfreqs - 1) :
                  Cardinality({k \in DOMAIN d : d[k][2][1] <= c /\ c < d[k][2][2]}) = 1

\* The axis of two windows of different widths, the wider one first, has
\* been built.
C27_Witness ==
    /\ calr.pc = "times"
    /\ calr.spw_info.num_chan = <<2, 1>>
    /\ calr.axis.spw_slice_dict = <<<<0, <<0, 2>>>>, <<1, <<2, 3>>>>>>
    /\ calr.axis.flex_spw_id_array = <<1, 1, 0>>


(***************************************************************************)
(* Tables opened and files touched by the readers and writers              *)
(* (ms_utils.py, uvcal/ms_cal.py).                                         *)
(*                                                                         *)
(* A call is run as the list of its table operations, the calls it makes   *)
(* spliced in: a check that a table exists, the opening of a table (inside *)
(* a with statement or by a plain assignment), a use of the table or a     *)
(* computation that may raise, the end of a with block, and the return     *)
(* from a function that holds a table in a local variable.  casacore is    *)
(* taken to be installed.  The target path is "absent", holds the          *)
(* "original" file, or holds a table "created" by the call.                *)
(***************************************************************************)

TableNames == {"MAIN", "HISTORY", "ANTENNA", "OBSERVATION", "SPECTRAL_WINDOW", "FIELD"}

CheckOp(t, skip) == [kind |-> "check", table |-> t, skip |-> skip, scoped |-> FALSE, creates |-> FALSE, errors |-> {}]

CheckAbsentOp == [kind |-> "check_absent", table |-> "MAIN", skip |-> 0, scoped |-> FALSE, creates |-> FALSE, errors |-> {}]

OpenOp(t, scoped, creates) == [kind |-> "open", table |-> t, skip |-> 0, scoped |-> scoped, creates |-> creates, errors |-> {}]

UseOp(t, errors) == [kind |-> "use", table |-> t, skip |-> 0, scoped |-> FALSE, creates |-> FALSE, errors |-> errors]

ExitOp(t) == [kind |-> "exit", table |-> t, skip |-> 0, scoped |-> TRUE, creates |-> FALSE, errors |-> {}]

LeaveOp(t) == [kind |-> "leave", table |-> t, skip |-> 0, scoped |-> FALSE, creates |-> FALSE, errors |-> {}]

GuardCalTypeOp == [kind |-> "guard_cal_type", table |-> "MAIN", skip |-> 0, scoped |-> FALSE, creates |-> FALSE, errors |-> {}]

\* _ms_utils_call_checks: the exception it raises, or None.
ms_utils_call_checks(exists, invert_check) ==
    IF invert_check THEN (IF exists THEN "FileExistsError" ELSE None)
    ELSE IF ~exists THEN "FileNotFoundError"
    ELSE None

\* The four readers that open their table in a with statement: the call
\* check, the with block and what may raise inside it.  skip > 0 is the
\* number of operations a caller's "except FileNotFoundError" passes over.
ScopedReaderOps(t, skip, errors) ==
    <<CheckOp(t, skip), OpenOp(t, TRUE, FALSE), UseOp(t, errors), ExitOp(t)>>

read_ms_hist_ops(skip) == ScopedReaderOps("HISTORY", skip, {"RuntimeError"})

read_ms_ant_ops == ScopedReaderOps("ANTENNA", 0, {"RuntimeError", "ValueError"})

read_ms_obs_ops == ScopedReaderOps("OBSERVATION", 0, {"RuntimeError"})

read_ms_spw_ops == ScopedReaderOps("SPECTRAL_WINDOW", 0, {"RuntimeError"})

\* read_ms_field: the table is assigned to tb_field and never closed.
read_ms_field_ops ==
    << CheckOp("FIELD", 0), OpenOp("FIELD", FALSE, FALSE),
       UseOp("FIELD", {"KeyError", "TypeError", "AssertionError"}), LeaveOp("FIELD") >>

\* read_ms_cal: the main table is assigned to tb_main and never closed.
read_ms_cal_ops ==
    <<CheckOp("MAIN", 0)>> \o read_ms_hist_ops(3)
    \o <<OpenOp("MAIN", FALSE, FALSE), UseOp("MAIN", {"ValueError", "NotImplementedError"})>>
    \o read_ms_ant_ops \o read_ms_obs_ops \o read_ms_field_ops
    \o <<UseOp("MAIN", {"RuntimeError"})>>
    \o read_ms_spw_ops
    \o <<UseOp("MAIN", {"NotImplementedError", "KeyError"}), LeaveOp("MAIN")>>

\* A sub-table writer: the check of the path, what may raise before the
\* table is opened, and the with block.
SubTableWriterOps(t, errors_before) ==
    <<CheckOp("MAIN", 0)>>
    \o (IF errors_before = {} THEN <<>> ELSE <<UseOp(t, errors_before)>>)
    \o <<OpenOp(t, TRUE, FALSE), UseOp(t, {"RuntimeError"}), ExitOp(t)>>

write_ms_antenna_ops == SubTableWriterOps("ANTENNA", {})

write_ms_field_ops == SubTableWriterOps("FIELD", {})

write_ms_history_ops == SubTableWriterOps("HISTORY", {"ValueError"})

write_ms_observation_ops == SubTableWriterOps("OBSERVATION", {})

write_ms_spectral_window_ops == SubTableWriterOps("SPECTRAL_WINDOW", {})

\* init_ms_cal_file: creates the table at the target path.
init_ms_cal_file_ops ==
    <<OpenOp("MAIN", TRUE, TRUE), UseOp("MAIN", {"RuntimeError"}), ExitOp("MAIN")>>

\* write_ms_cal.
write_ms_cal_ops ==
    <<CheckAbsentOp>> \o init_ms_cal_file_ops \o <<GuardCalTypeOp>>
    \o <<OpenOp("MAIN", TRUE, FALSE), UseOp("MAIN", {"RuntimeError"}), ExitOp("MAIN")>>
    \o write_ms_antenna_ops \o write_ms_field_ops \o write_ms_history_ops
    \o write_ms_observation_ops \o write_ms_spectral_window_ops

Calls ==
    { "read_ms_hist", "read_ms_ant", "read_ms_obs", "read_ms_spw", "read_ms_field",
      "read_ms_cal", "write_ms_cal", "write_ms_antenna", "write_ms_field",
      "write_ms_history", "write_ms_observation", "write_ms_spectral_window" }

OpsOf(call) ==
    CASE call = "read_ms_hist" -> read_ms_hist_ops(0)
      [] call = "read_ms_ant" -> read_ms_ant_ops
      [] call = "read_ms_obs" -> read_ms_obs_ops
      [] call = "read_ms_spw" -> read_ms_spw_ops
      [] call = "read_ms_field" -> read_ms_field_ops
      [] call = "read_ms_cal" -> read_ms_cal_ops
      [] call = "write_ms_cal" -> write_ms_cal_ops
      [] call = "write_ms_antenna" -> write_ms_antenna_ops
      [] call = "write_ms_field" -> write_ms_field_ops
      [] call = "write_ms_history" -> write_ms_history_ops
      [] call = "write_ms_observation" -> write_ms_observation_ops
      [] call = "write_ms_spectral_window" -> write_ms_spectral_window_ops

\* The state before a call: the target path is absent or holds a file, of
\* whose sub-tables at most one is missing.
IoInit ==
    \E call \in Calls, fs \in {"absent", "original"}, clobber \in BOOLEAN :
    \E cal_type \in {"gain", "delay"} :
    \E missing \in {{}} \cup {{t} : t \in TableNames \ {"MAIN"}} :
        /\ (call # "write_ms_cal") => (~clobber /\ cal_type = "gain")
        /\ io = [ pc |-> "run", call |-> call, clobber |-> clobber,
                  cal_type |-> cal_type, missing |-> missing, fs0 |-> fs, fs |-> fs,
                  todo |-> OpsOf(call), scopes |-> <<>>, open |-> {},
                  outcome |-> None, faulted |-> FALSE ]

\* Whether tables.tableexists / os.path.exists finds the table.
TableExists(t) == io.fs # "absent" /\ t \notin io.missing

\* The state after an exception leaves the call: every with block that is
\* active closes its table; a table held by a local variable stays open,
\* the traceback holding the frame.
Raised(exc) ==
    [io EXCEPT !.pc = "done", !.todo = <<>>, !.outcome = exc,
               !.open = @ \ Range(io.scopes), !.scopes = <<>>]

Advance(n) == [io EXCEPT !.todo = SubSeq(@, n + 1, Len(@))]

IoAt(kind) == io.pc = "run" /\ io.todo # <<>> /\ Head(io.todo).kind = kind

\* _ms_utils_call_checks(path) at the head of a reader or writer.
IoCheck ==
    /\ IoAt("check")
    /\ LET op == Head(io.todo)
           exc == ms_utils_call_checks(TableExists(op.table), FALSE)
       IN  io' = IF exc = None THEN Advance(1)
                 ELSE IF op.skip > 0 THEN Advance(1 + op.skip)
                 ELSE Raised(exc)
    /\ UNCHANGED <<fr, ant, hist, calr, calw, freq>>

\* A slip in the handler: the error is raised again whatever clobber is.
WriteCalCheckIgnoringClobber(exists, clobber) == ms_utils_call_checks(exists, TRUE)

\* The try block at the head of write_ms_cal: the exception that leaves it.
WriteCalCheck(exists, clobber) ==
    IF ms_utils_call_checks(exists, TRUE) = "FileExistsError" /\ ~clobber
    THEN "FileExistsError"
    ELSE None

IoCheckAbsent ==
    /\ IoAt("check_absent")
    /\ LET exc == WriteCalCheck(io.fs # "absent", io.clobber)
       IN  io' = IF exc = None THEN Advance(1) ELSE Raised(exc)
    /\ UNCHANGED <<fr, ant, hist, calr, calw, freq>>

\* tables.table(...): in a with statement or assigned to a local variable;
\* with a table description it creates the table.
IoOpen ==
    /\ IoAt("open")
    /\ LET op == Head(io.todo)
       IN  io' = [Advance(1) EXCEPT
                     !.open = @ \cup {op.table},
                     !.scopes = IF op.scoped THEN <<op.table>> \o @ ELSE @,
                     !.fs = IF op.creates THEN "created" ELSE @]
    /\ UNCHANGED <<fr, ant, hist, calr, calw, freq>>

\* Work on a table, or before it is opened: it goes through or raises one
\* of the exceptions the code or casacore raises there.
IoUse ==
    /\ IoAt("use")
    /\ \E exc \in Head(io.todo).errors \cup {None} :
          io' = IF exc = None THEN Advance(1)
                ELSE [Raised(exc) EXCEPT !.faulted = TRUE]
    /\ UNCHANGED <<fr, ant, hist, calr, calw, freq>>

\* The cal_type test of write_ms_cal.
IoGuardCalType ==
    /\ IoAt("guard_cal_type")
    /\ io' = IF io.cal_type = "gain" THEN Advance(1) ELSE Raised("NotImplementedError")
    /\ UNCHANGED <<fr, ant, hist, calr, calw, freq>>

\* The end of a with block closes its table.
IoExit ==
    /\ IoAt("exit")
    /\ io' = [Advance(1) EXCEPT !.open = @ \ {Head(io.todo).table},
                                !.scopes = Tail(@)]
    /\ UNCHANGED <<fr, ant, hist, calr, calw, freq>>

\* The return of a function that holds a table in a local variable: no
\* statement closes the table; whether the interpreter has destroyed the
\* object by then is not determined by the code.
IoLeave ==
    /\ IoAt("leave")
    /\ \E destroyed \in BOOLEAN :
          io' = [Advance(1) EXCEPT
                    !.open = IF destroyed THEN @ \ {Head(io.todo).table} ELSE @]
    /\ UNCHANGED <<fr, ant, hist, calr, calw, freq>>

\* The call returns.
IoReturn ==
    /\ io.pc = "run" /\ io.todo = <<>>
    /\ io' = [io EXCEPT !.pc = "done", !.outcome = "return"]
    /\ UNCHANGED <<fr, ant, hist, calr, calw, freq>>

IoNext ==
    \/ IoCheck \/ IoCheckAbsent \/ IoOpen \/ IoUse \/ IoGuardCalType
    \/ IoExit \/ IoLeave \/ IoReturn

InitTables ==
    /\ IoInit
    /\ fr = Idle /\ ant = Idle /\ hist = Idle /\ calr = Idle /\ calw = Idle /\ freq = Idle

SpecTables == InitTables /\ [][IoNext]_vars

\* C21: every table opened by a sub-table reader or writer or by the
\* calibration reader or writer is closed by the time the call returns or
\* raises: no table the call opened is still open.
C21_TablesClosedAfterCall ==
    io.pc = "done" => io.open = {}

\* C22: write_ms_cal raises FileExistsError when the target path exists
\* and clobber is false, and leaves the file there untouched; it raises
\* NotImplementedError for a cal_type other than gain (when the file check
\* passed and casacore raised nothing before); with clobber true an
\* existing target causes no FileExistsError.
C22_WriteCalFileErrors ==
    (io.pc = "done" /\ io.call = "write_ms_cal") =>
        /\ (io.fs0 = "original" /\ ~io.clobber) =>
              /\ io.outcome = "FileExistsError"
              /\ io.fs = "original"
        /\ (~(io.fs0 = "original" /\ ~io.clobber) /\ io.cal_type # "gain" /\ ~io.faulted) =>
              io.outcome = "NotImplementedError"
        /\ io.clobber => io.outcome # "FileExistsError"

\* write_ms_cal has refused to write over an existing file.
C22_Witness ==
    /\ io.pc = "done" /\ io.call = "write_ms_cal"
    /\ io.fs0 = "original" /\ ~io.clobber
    /\ io.outcome = "FileExistsError"

\* write_ms_cal has written over an existing file with clobber set.
C22_WitnessClobber ==
    /\ io.pc = "done" /\ io.call = "write_ms_cal"
    /\ io.fs0 = "original" /\ io.clobber /\ io.cal_type = "gain"
    /\ io.outcome = "return" /\ io.fs = "created"

\* C29: when write_ms_cal raises NotImplementedError because cal_type is
\* not "gain", the call has had no effect on the file system: no table has
\* been created at, or written over, the target path.
C29_NotImplementedLeavesNoFile ==
    (io.pc = "done" /\ io.call = "write_ms_cal" /\ io.outcome = "NotImplementedError") =>
        io.fs = io.fs0


\* The order _sort_freq_helper leaves the axis in: the index array it
\* returned, or every channel in its place when it returned None.
SortedOrder ==
    IF freq.result.index_array = <<>> THEN Arange(Len(freq.freq_array))
    ELSE freq.result.index_array

\* The frequencies and the window ids along the reordered axis.
ReorderedFreqs == TakeAt(freq.freq_array, SortedOrder)

ReorderedSpws == TakeAt(freq.flex_spw_id_array, SortedOrder)

\* Along the reordered axis the channels of every window stand in one
\* block.
WindowsInBlocks ==
    \A p, q \in DOMAIN ReorderedSpws :
        (p < q /\ ReorderedSpws[p] = ReorderedSpws[q]) =>
            \A r \in p..q : ReorderedSpws[r] = ReorderedSpws[p]

\* Window w1 may stand before window w2 under the string spw_order: by
\* number or by median frequency, ascending or descending.
MayPrecede(w1, w2) ==
    CASE freq.spw_order.str = "number" -> w1 < w2
      [] freq.spw_order.str = "-number" -> w1 > w2
      [] freq.spw_order.str = "freq" -> WinMedian(w1) <= WinMedian(w2)
      [] OTHER -> WinMedian(w1) >= WinMedian(w2)

\* Along the reordered axis the windows follow one another in the order
\* the string spw_order asks for.
BlocksInRequestedOrder ==
    \A p, q \in DOMAIN ReorderedSpws :
        (p < q /\ ReorderedSpws[p] # ReorderedSpws[q]) =>
            MayPrecede(ReorderedSpws[p], ReorderedSpws[q])

\* Along the reordered axis the frequencies of every window that is sorted
\* ascend (channel_order 'freq') or descend ('-freq').
SortedWindowsByFrequency ==
    \A p, q \in DOMAIN ReorderedSpws :
        (/\ p < q
         /\ ReorderedSpws[p] = ReorderedSpws[q]
         /\ WindowIsSorted(ReorderedSpws[p])) =>
            IF freq.channel_order.str = "-freq"
            THEN ReorderedFreqs[p] > ReorderedFreqs[q]
            ELSE ReorderedFreqs[p] < ReorderedFreqs[q]

\* The channels of every window that select_spw leaves out follow one
\* another as they did before the call.
ExcludedWindowsKeepOrder ==
    \A p, q \in DOMAIN ReorderedSpws :
        (/\ p < q
         /\ ReorderedSpws[p] = ReorderedSpws[q]
         /\ ~WindowIsSorted(ReorderedSpws[p])) =>
            SortedOrder[p] < SortedOrder[q]

\* The call went through the branch for a channel_order that is None or a
\* string, and returned.
SortedByCriteria ==
    /\ freq.pc = "sorted"
    /\ freq.channel_order.kind # "array"
    /\ freq.result.outcome = "return"

StringSpwOrder ==
    freq.spw_order.kind = "str" /\ freq.spw_order.str \in {"number", "-number", "freq", "-freq"}

\* C28 as stated: every index array _sort_freq_helper returns is a
\* permutation of 0..Nfreqs-1; with a string spw_order the reordered axis
\* has each window's channels in one block and the windows in the order
\* asked for; with channel_order 'freq' or '-freq' the frequencies inside
\* every sorted window ascend, respectively descend, and the windows that
\* select_spw leaves out keep their channel order.
C28_SortOrdersAxis_AsStated ==
    SortedByCriteria =>
        /\ freq.result.index_array # <<>> =>
              IsPermutation(freq.result.index_array, Len(freq.freq_array))
        /\ StringSpwOrder => (WindowsInBlocks /\ BlocksInRequestedOrder)
        /\ freq.channel_order.kind = "str" =>
              (SortedWindowsByFrequency /\ ExcludedWindowsKeepOrder)

\* C28: every index array _sort_freq_helper returns is a permutation of
\* 0..Nfreqs-1; with a string spw_order and no select_spw (which makes the
\* function ignore spw_order) the reordered axis has each window's channels
\* in one block and the windows in the order asked for; with channel_order
\* 'freq' or '-freq' the frequencies inside every sorted window ascend,
\* respectively descend, and the windows that select_spw leaves out keep
\* their channel order.
C28_SortOrdersAxis ==
    SortedByCriteria =>
        /\ freq.result.index_array # <<>> =>
              IsPermutation(freq.result.index_array, Len(freq.freq_array))
        /\ (StringSpwOrder /\ freq.select_spw.kind = "None") =>
              (WindowsInBlocks /\ BlocksInRequestedOrder)
        /\ freq.channel_order.kind = "str" =>
              (SortedWindowsByFrequency /\ ExcludedWindowsKeepOrder)

\* Two windows that stood interleaved were put in blocks by descending
\* median frequency, each with its channels in descending frequency.
C28_Witness ==
    /\ SortedByCriteria
    /\ freq.spw_order = StrArg("-freq")
    /\ freq.channel_order = StrArg("-freq")
    /\ freq.select_spw.kind = "None"
    /\ freq.flex_spw_id_array = <<0, 1, 0>>
    /\ freq.result.index_array # <<>>

\* With select_spw naming window 0 alone and channel_order 'freq', the
\* channels of window 1 were left as they stood, out of order.
C28_WitnessExcluded ==
    /\ SortedByCriteria
    /\ freq.select_spw = IntArg(0)
    /\ freq.channel_order = StrArg("freq")
    /\ \E p, q \in DOMAIN ReorderedSpws :
          /\ p < q /\ ReorderedSpws[p] = 1 /\ ReorderedSpws[q] = 1
          /\ ReorderedFreqs[p] > ReorderedFreqs[q]

(***************************************************************************)
(* A table written by write_ms_cal and read back by read_ms_cal            *)
(* (uvcal/ms_cal.py).  The reader opens the main table the writer left,    *)
(* the ANTENNA table write_ms_antenna made of antenna_numbers and the      *)
(* SPECTRAL_WINDOW table write_ms_spectral_window made of spw_array and    *)
(* flex_spw_id_array.  Every antenna of the object stands away from the    *)
(* origin, so read_ms_ant keeps its row.                                   *)
(***************************************************************************)

\* antenna_numbers as read_ms_ant returns them from the table the writer
\* made: np.arange(n_ants_table)[good_mask], the rows of the antennas of
\* the object, in row order.
AntennaNumbersRead(c) == SortedSeq(Range(c.antenna_numbers))

\* The frequency of channel ch (from 1) of the object written.
ChanFreqOf(ch) == 100 + ch

\* What read_ms_spw returns from the table write_ms_spectral_window made:
\* one row per entry of spw_array, with the id, the number and the
\* frequencies of the channels whose flex_spw_id_array entry is the id.
SpwInfoWritten(c) ==
    [ assoc_spw_id |-> c.spw_array,
      num_chan |-> [k \in DOMAIN c.spw_array |-> Len(SpwSel(c, c.spw_array[k]))],
      chan_freq |-> [k \in DOMAIN c.spw_array |->
                        [n \in DOMAIN SpwSel(c, c.spw_array[k]) |->
                            ChanFreqOf(SpwSel(c, c.spw_array[k])[n])]] ]

\* The columns of the main table as the writer left them.
MainTableWritten(c) ==
    [ TIME |-> c.TIME, ANTENNA1 |-> c.ANTENNA1,
      SPECTRAL_WINDOW_ID |-> c.SPECTRAL_WINDOW_ID, FIELD_ID |-> c.FIELD_ID,
      SCAN_NUMBER |-> c.SCAN_NUMBER, INTERVAL |-> c.INTERVAL,
      CPARAM |-> c.CPARAM, PARAMERR |-> c.PARAMERR, FLAG |-> c.FLAG ]

\* read_ms_cal is called on the table write_ms_cal has closed.
CrOpen ==
    /\ calw.pc = "done"
    /\ calr.pc = "idle"
    /\ calr' = ReadStart(AntennaNumbersRead(calw), SpwInfoWritten(calw),
                         MainTableWritten(calw), 0, 1)
    /\ UNCHANGED <<fr, ant, hist, freq, calw, io>>

RoundTripNext == CalwNext \/ CrOpen \/ CrNext

InitRoundTrip ==
    /\ CalwInit
    /\ fr = Idle /\ ant = Idle /\ hist = Idle /\ calr = Idle /\ freq = Idle /\ io = Idle

SpecRoundTrip == InitRoundTrip /\ [][RoundTripNext]_vars

\* The object written has ascending antenna numbers and its windows
\* grouped along the frequency axis in the order of spw_array.
AscendingAndGrouped ==
    /\ StrictlyAscending(calw.antenna_numbers)
    /\ \A ch1, ch2 \in DOMAIN calw.flex_spw_id_array :
          ch1 < ch2 =>
              \A k1, k2 \in DOMAIN calw.spw_array :
                  (/\ calw.spw_array[k1] = calw.flex_spw_id_array[ch1]
                   /\ calw.spw_array[k2] = calw.flex_spw_id_array[ch2]) => k1 <= k2

\* The object read has the antenna numbers, Nfreqs and Ntimes of the object
\* written and, for every antenna of ant_array, channel and time, its gain
\* and its flag.
ReadReproducesWritten ==
    /\ calr.pc = "done"
    /\ calr.antenna_numbers = calw.antenna_numbers
    /\ calr.axis.Nfreqs = CalNfreqs(calw)
    /\ calr.Ntimes = calw.Ntimes
    /\ \A i \in DOMAIN calw.ant_array :
       \A ch \in DOMAIN calw.flex_spw_id_array :
       \A t \in 1..calw.Ntimes :
           LET cell == <<AntDict(calr.antenna_numbers, calw.ant_array[i]), ch - 1, t - 1>>
           IN  /\ cell \in DOMAIN calr.arrays.ms_cal_soln
               /\ calr.arrays.ms_cal_soln[cell] = GainAt(i, ch, t)
               /\ calr.arrays.flag_array[cell] = FlagAt(i, ch, t)

\* The read of a written table has ended, by returning or by raising.
ReadBackEnded == calw.pc = "done" /\ calr.pc \in {"done", "raised"}

\* C30: writing a gain solution with write_ms_cal and reading the table
\* back with read_ms_cal reproduces the solution: for an object with
\* ascending antenna numbers and windows grouped in spw_array order, the
\* object read has the same antenna numbers, Nfreqs and Ntimes and, for
\* every antenna, channel and time, the gain and flag of the object
\* written.
C30_RoundTripReproduces ==
    (ReadBackEnded /\ AscendingAndGrouped) => ReadReproducesWritten

\* The same for an object whose windows all have one channel, where the
\* rows added are the rows written.
C30_RoundTripReproduces_OneChannelWindows ==
    (ReadBackEnded /\ AscendingAndGrouped /\ CalNfreqs(calw) = CalNspws(calw)) =>
        ReadReproducesWritten

\* An object with sparse antenna numbers and two windows of one channel
\* was written and read back.
C30_WitnessOneChannelWindows ==
    /\ ReadBackEnded /\ AscendingAndGrouped
    /\ calw.antenna_numbers = <<0, 2>>
    /\ CalNspws(calw) = 2 /\ CalNfreqs(calw) = 2 /\ calw.Ntimes = 2
    /\ ReadReproducesWritten

=============================================================================
